---- MODULE Spec2Model ----
(***************************************************************************)
(* A model of the FindingDodo platformer: the SceneManager of main.py,     *)
(* the Hub / Level / Win scenes of scenes.py with their tile maps, body    *)
(* physics, hazards and collectibles, and the IntroScene.                  *)
(*                                                                         *)
(* Units.  Pixels are integers.  Velocities are kept in hundredths of a    *)
(* pixel per frame (0.75 -> 75, 0.9 -> 90); every velocity the program     *)
(* can hold is a multiple of 0.25 (body) or of 0.1 (stalactite), and       *)
(* int(round(v)) of the float equals the half-to-even rounding of the      *)
(* exact value for all of them.  Times are in milliseconds; the frame      *)
(* times drawn are multiples of 250 ms, for which dt = ms / 1000.0 and the *)
(* timer subtractions are exact in floating point.                         *)
(***************************************************************************)
EXTENDS Integers, Sequences, FiniteSets, TLC

-----------------------------------------------------------------------------
(* Program constants *)

TILE == 16
PLAYER_SCALE == 2

GRAVITY == 75
JUMP_VEL == 1100
MOVE_SPEED == 350
MAX_FALL == 1600

DEATH_COOLDOWN_S == 500
LAVA_STUN_S == 1000
DOUBLE_ESC_WINDOW_S == 500

SAFE_ZONE_TILES == 2
REQUIRED_CONSUMABLES == 6

STALACT_LEN_TILES == 3
STALAG_LEN_TILES == 3
STALACT_FALL_GRAV == 90
STALACT_MAX_FALL == 2000
STALACT_TRIGGER_PAD == 2

LAVA_CHAR == "~"
CONSUMABLE_CHAR == "C"

Max(a, b) == IF a >= b THEN a ELSE b
Min(a, b) == IF a <= b THEN a ELSE b
Abs(a) == IF a >= 0 THEN a ELSE -a

TIP_H == TILE
TIP_W == Max(4, TILE \div 3)

(* The model's bounds: the difficulty counter is capped in the guards.     *)
MaxStage == 1

(* Frame times clock.tick can return, in ms.                               *)
DtSet == {250, 500}

-----------------------------------------------------------------------------
(* int(round(v)) for v given in hundredths: Python 3 rounds half to even.  *)
PyRound(v) ==
    LET q == v \div 100
        r == v % 100
    IN  IF r < 50 THEN q
        ELSE IF r > 50 THEN q + 1
        ELSE IF q % 2 = 0 THEN q ELSE q + 1

(* pygame.Rect *)
Rect(x, y, w, h) == [x |-> x, y |-> y, w |-> w, h |-> h]

collidepoint(r, x, y) ==
    /\ r.x <= x /\ x < r.x + r.w
    /\ r.y <= y /\ y < r.y + r.h

colliderect(a, b) ==
    /\ a.x < b.x + b.w
    /\ a.x + a.w > b.x
    /\ a.y < b.y + b.h
    /\ a.y + a.h > b.y

inflate(r, dx, dy) == Rect(r.x - dx \div 2, r.y - dy \div 2, r.w + dx, r.h + dy)

centerx(r) == r.x + r.w \div 2
centery(r) == r.y + r.h \div 2

(* Index of the first rectangle of seq that r overlaps, 0 when none.       *)
RECURSIVE FirstHitFrom(_, _, _)
FirstHitFrom(r, seq, i) ==
    IF i > Len(seq) THEN 0
    ELSE IF colliderect(r, seq[i]) THEN i
    ELSE FirstHitFrom(r, seq, i + 1)

FirstHit(r, seq) == FirstHitFrom(r, seq, 1)

HitsAny(r, seq) == FirstHit(r, seq) # 0

(* [f(s[1]), ..., f(s[n])] *)
MapSeq(s, f(_)) == [i \in 1..Len(s) |-> f(s[i])]

RECURSIVE Flatten(_)
Flatten(ss) == IF ss = <<>> THEN <<>> ELSE Head(ss) \o Flatten(Tail(ss))

-----------------------------------------------------------------------------
(* level_data: the grids.  A grid is a sequence of rows, a row a sequence  *)
(* of one-character strings; cell (x, y) of the program is grid[y+1][x+1]. *)

L2_W == 70

level_data_HUB ==
    << <<"P", ".", ".", ".">>,
       <<".", "1", "2", "~">>,
       <<"#", "#", "#", "#">> >>

level_data_LEVEL1 ==
    << <<".", ".", "^", ".", "^", ".", ".">>,
       <<".", ".", ".", ".", ".", ".", ".">>,
       <<".", ".", ".", ".", ".", ".", ".">>,
       <<"#", "#", ".", "#", "#", "#", "#">>,
       <<"P", "C", ".", ".", "C", ".", ".">>,
       <<"C", ".", ".", ".", ".", "D", ".">>,
       <<"#", "#", "#", "#", "#", "#", "v">> >>

(* Level 2 is wide enough for the progressive lava strip (columns 52..);   *)
(* the body lives in the walled part at its left.                          *)
L2Row(given) == [i \in 1..L2_W |-> IF i \in DOMAIN given THEN given[i] ELSE "."]

L2Cell(row, x, ch) == [row EXCEPT ![x + 1] = ch]

level_data_LEVEL2 ==
    << L2Row(<<>>),
       L2Cell(L2Row(<<>>), 53, "#"),
       L2Cell(L2Row(<<"#", "#", "#", "#", "#", "#", "#">>), 60, "="),
       L2Row(<<"C", ".", "P", "C", ".", ".", "#">>),
       L2Row(<<"C", "R", "C", "F", "~", ".", "#">>),
       L2Row(<<"#", "#", "#", "#", "#", "#", "#">>) >>

-----------------------------------------------------------------------------
(* TileMap *)

GridH(grid) == Len(grid)
GridW(grid) == IF Len(grid) # 0 THEN Len(grid[1]) ELSE 0

(* The cells in the order of the two enumerate() loops: row by row.        *)
GridCells(grid) ==
    Flatten([y \in 1..Len(grid) |-> [x \in 1..Len(grid[y]) |-> <<x - 1, y - 1>>]])

CharAt(grid, c) == grid[c[2] + 1][c[1] + 1]

CellsOf(grid, chars) == SelectSeq(GridCells(grid), LAMBDA c : CharAt(grid, c) \in chars)

TileRect(c) == Rect(c[1] * TILE, c[2] * TILE, TILE, TILE)

(* A variant whose left rectangle covers the first column of the grid. *)
CageRects_inset(world_w, world_h) ==
    << Rect(0, 0, TILE, world_h),
       Rect(world_w, 0, TILE, world_h),
       Rect(0, -TILE, world_w, TILE) >>

(* The three synthetic cage rectangles: left, right, top.                  *)
CageRects(world_w, world_h) ==
    << Rect(-TILE, 0, TILE, world_h),
       Rect(world_w, 0, TILE, world_h),
       Rect(0, -TILE, world_w, TILE) >>

TileMap(grid) ==
    LET h == GridH(grid)
        w == GridW(grid)
        world_w == w * TILE
        world_h == h * TILE
        spawns == CellsOf(grid, {"P"})
    IN  [ grid |-> grid,
          h |-> h,
          w |-> w,
          world_w |-> world_w,
          world_h |-> world_h,
          base_solids |-> MapSeq(CellsOf(grid, {"#", "="}), TileRect)
                            \o CageRects(world_w, world_h),
          doors |-> MapSeq(CellsOf(grid, {"D", "1", "2", "R", "F"}), TileRect),
          lava |-> MapSeq(CellsOf(grid, {LAVA_CHAR}), TileRect),
          collectible_tiles |-> CellsOf(grid, {CONSUMABLE_CHAR}),
          spawn_px |-> IF spawns = <<>>
                       THEN <<2 * TILE, (h - 3) * TILE>>
                       ELSE <<spawns[Len(spawns)][1] * TILE, spawns[Len(spawns)][2] * TILE>>,
          stalact_anchors |-> CellsOf(grid, {"^"}),
          stalag_bases |-> CellsOf(grid, {"v"}) ]

tile_at_pixel(map, px, py) ==
    LET tx == px \div TILE
        ty == py \div TILE
    IN  IF 0 <= ty /\ ty < map.h /\ 0 <= tx /\ tx < map.w
        THEN map.grid[ty + 1][tx + 1]
        ELSE "."

tile_under_player(map, player_rect) ==
    tile_at_pixel(map, centerx(player_rect), centery(player_rect))

-----------------------------------------------------------------------------
(* Hazard groups *)

(* by_row keeps the rows in the order of their first point.                *)
RECURSIVE RowKeysFrom(_, _, _)
RowKeysFrom(points, i, keys) ==
    IF i > Len(points) THEN keys
    ELSE IF \E k \in 1..Len(keys) : keys[k] = points[i][2]
         THEN RowKeysFrom(points, i + 1, keys)
         ELSE RowKeysFrom(points, i + 1, Append(keys, points[i][2]))

(* A variant that leaves the columns in the order of the points. *)
RowXs_unsorted(points, y) ==
    MapSeq(SelectSeq(points, LAMBDA p : p[2] = y), LAMBDA p : p[1])

RowXs(points, y) ==
    SortSeq(MapSeq(SelectSeq(points, LAMBDA p : p[2] = y), LAMBDA p : p[1]),
            LAMBDA a, b : a < b)

RECURSIVE RunsLoop(_, _, _, _, _)
RunsLoop(xs, i, start, prev, row_runs) ==
    IF i > Len(xs) THEN Append(row_runs, <<start, prev>>)
    ELSE IF xs[i] = prev + 1
         THEN RunsLoop(xs, i + 1, start, xs[i], row_runs)
         ELSE RunsLoop(xs, i + 1, xs[i], xs[i], Append(row_runs, <<start, prev>>))

(* The dict of the program as a sequence of [y, runs] in insertion order.  *)
build_contiguous_runs(points) ==
    LET keys == RowKeysFrom(points, 1, <<>>)
    IN  [k \in 1..Len(keys) |->
            LET xs == RowXs(points, keys[k])
            IN  [y |-> keys[k], runs |-> RunsLoop(xs, 2, xs[1], xs[1], <<>>)]]

StalactiteGroup(anchor_y_tile, x0_tile, x1_tile) ==
    [ anchor_y |-> anchor_y_tile * TILE,
      x |-> x0_tile * TILE,
      w_tiles |-> x1_tile - x0_tile + 1,
      w |-> (x1_tile - x0_tile + 1) * TILE,
      h |-> STALACT_LEN_TILES * TILE,
      y |-> anchor_y_tile * TILE,
      vy |-> 0,
      falling |-> FALSE,
      landed |-> FALSE ]

StalagmiteGroup(base_y_tile, x0_tile, x1_tile) ==
    [ base_y |-> base_y_tile * TILE,
      x |-> x0_tile * TILE,
      w_tiles |-> x1_tile - x0_tile + 1,
      w |-> (x1_tile - x0_tile + 1) * TILE,
      h |-> STALAG_LEN_TILES * TILE,
      y |-> base_y_tile * TILE - STALAG_LEN_TILES * TILE + TILE ]

(* rect / solid_rect of either hazard kind *)
solid_rect(s) == Rect(s.x, s.y, s.w, s.h)

stalactite_tip_hitboxes(s) ==
    [i \in 1..s.w_tiles |->
        Rect(s.x + (i - 1) * TILE + (TILE - TIP_W) \div 2, s.y + s.h - TIP_H, TIP_W, TIP_H)]

stalagmite_tip_hitboxes(s) ==
    [i \in 1..s.w_tiles |->
        Rect(s.x + (i - 1) * TILE + (TILE - TIP_W) \div 2, s.y, TIP_W, TIP_H)]

(* A variant without the edge pad. *)
should_trigger_nopad(s, player_rect) ==
    LET cx == centerx(player_rect)
    IN  IF cx < s.x \/ cx > s.x + s.w
        THEN FALSE
        ELSE player_rect.y > s.anchor_y + TILE

should_trigger(s, player_rect) ==
    LET cx == centerx(player_rect)
    IN  IF cx < s.x + STALACT_TRIGGER_PAD \/ cx > s.x + s.w - STALACT_TRIGGER_PAD
        THEN FALSE
        ELSE player_rect.y > s.anchor_y + TILE

(* The falling loop: n pixel steps left, each tested against the static    *)
(* solids in list order.                                                   *)
RECURSIVE StalactiteFall(_, _, _)
StalactiteFall(s, solids_static, n) ==
    IF n = 0 THEN s
    ELSE LET moved == [s EXCEPT !.y = s.y + 1]
             hit == FirstHit(solid_rect(moved), solids_static)
         IN  IF hit # 0
             THEN [moved EXCEPT !.y = solids_static[hit].y - s.h,
                                !.vy = 0,
                                !.landed = TRUE]
             ELSE StalactiteFall(moved, solids_static, n - 1)

(* A variant that recomputes the falling flag from the trigger each call.  *)
stalactite_update_retrigger(s, solids_static, player_rect) ==
    IF s.landed THEN s
    ELSE LET t == [s EXCEPT !.falling = should_trigger(s, player_rect)]
         IN  IF ~t.falling THEN t
             ELSE LET vy == Min(STALACT_MAX_FALL, t.vy + STALACT_FALL_GRAV)
                      dy == PyRound(vy)
                  IN  StalactiteFall([t EXCEPT !.vy = vy], solids_static, Max(1, dy))

(* A variant without the max-fall clamp. *)
stalactite_update_nocap(s, solids_static, player_rect) ==
    IF s.landed THEN s
    ELSE LET t == IF ~s.falling /\ should_trigger(s, player_rect)
                  THEN [s EXCEPT !.falling = TRUE]
                  ELSE s
         IN  IF ~t.falling THEN t
             ELSE LET vy == t.vy + STALACT_FALL_GRAV
                      dy == PyRound(vy)
                  IN  StalactiteFall([t EXCEPT !.vy = vy], solids_static, Max(1, dy))

stalactite_update(s, solids_static, player_rect) ==
    IF s.landed THEN s
    ELSE LET t == IF ~s.falling /\ should_trigger(s, player_rect)
                  THEN [s EXCEPT !.falling = TRUE]
                  ELSE s
         IN  IF ~t.falling THEN t
             ELSE LET vy == Min(STALACT_MAX_FALL, t.vy + STALACT_FALL_GRAV)
                      dy == PyRound(vy)
                  IN  StalactiteFall([t EXCEPT !.vy = vy], solids_static, Max(1, dy))

RunsToGroups(runs, Group(_, _, _)) ==
    Flatten([k \in 1..Len(runs) |->
                [j \in 1..Len(runs[k].runs) |->
                    Group(runs[k].y, runs[k].runs[j][1], runs[k].runs[j][2])]])

build_stalactites(tilemap) ==
    IF tilemap.stalact_anchors = <<>> THEN <<>>
    ELSE RunsToGroups(build_contiguous_runs(tilemap.stalact_anchors), StalactiteGroup)

build_stalagmites(tilemap) ==
    IF tilemap.stalag_bases = <<>> THEN <<>>
    ELSE RunsToGroups(build_contiguous_runs(tilemap.stalag_bases), StalagmiteGroup)

-----------------------------------------------------------------------------
(* Collectible groups *)

SeqToSet(s) == {s[i] : i \in 1..Len(s)}

(* A variant that takes the diagonal neighbours too. *)
Neighbours_diag(c) ==
    << <<c[1] + 1, c[2]>>, <<c[1] - 1, c[2]>>, <<c[1], c[2] + 1>>, <<c[1], c[2] - 1>>,
       <<c[1] + 1, c[2] + 1>>, <<c[1] - 1, c[2] - 1>>,
       <<c[1] + 1, c[2] - 1>>, <<c[1] - 1, c[2] + 1>> >>

Neighbours(c) ==
    << <<c[1] + 1, c[2]>>, <<c[1] - 1, c[2]>>, <<c[1], c[2] + 1>>, <<c[1], c[2] - 1>> >>

(* The inner while loop: pop, append to the group, push the neighbours     *)
(* still in pts.                                                           *)
RECURSIVE FloodFill(_, _, _)
FloodFill(stack, pts, group) ==
    IF stack = <<>> THEN [group |-> group, pts |-> pts]
    ELSE LET c == stack[Len(stack)]
             found == SelectSeq(Neighbours(c), LAMBDA n : n \in pts)
         IN  FloodFill(SubSeq(stack, 1, Len(stack) - 1) \o found,
                       pts \ SeqToSet(found),
                       Append(group, c))

(* next(iter(pts)) is some element of the set.                             *)
RECURSIVE GroupsOf(_)
GroupsOf(pts) ==
    IF pts = {} THEN <<>>
    ELSE LET start == CHOOSE p \in pts : TRUE
             r == FloodFill(<<start>>, pts \ {start}, <<>>)
         IN  <<r.group>> \o GroupsOf(r.pts)

build_connected_groups(points) == GroupsOf(SeqToSet(points))

TileLess(a, b) == a[1] < b[1] \/ (a[1] = b[1] /\ a[2] < b[2])

(* bounds is used for drawing only and is left out.                        *)
CollectibleGroup(level_id, tiles) ==
    LET sorted == SortSeq(tiles, TileLess)
    IN  [ tiles |-> sorted,
          rects |-> MapSeq(sorted, TileRect),
          uid |-> <<level_id, sorted>> ]

touches(grp, player_rect) == \E i \in 1..Len(grp.rects) : colliderect(player_rect, grp.rects[i])

-----------------------------------------------------------------------------
(* Player *)

Player(pos_px) ==
    [ rect |-> Rect(pos_px[1], pos_px[2], TILE * PLAYER_SCALE, TILE * PLAYER_SCALE),
      vx |-> 0,
      vy |-> 0,
      on_ground |-> FALSE ]

(* keys: [a, d, jump, e]; jump is K_w or K_SPACE held.                     *)
(* A variant that jumps whenever the jump key is held. *)
handle_input_airjump(p, keys) ==
    LET vx == (IF keys.d THEN MOVE_SPEED ELSE 0) - (IF keys.a THEN MOVE_SPEED ELSE 0)
    IN  IF keys.jump
        THEN [p EXCEPT !.vx = vx, !.vy = -JUMP_VEL, !.on_ground = FALSE]
        ELSE [p EXCEPT !.vx = vx]

handle_input(p, keys) ==
    LET vx == (IF keys.d THEN MOVE_SPEED ELSE 0) - (IF keys.a THEN MOVE_SPEED ELSE 0)
    IN  IF keys.jump /\ p.on_ground
        THEN [p EXCEPT !.vx = vx, !.vy = -JUMP_VEL, !.on_ground = FALSE]
        ELSE [p EXCEPT !.vx = vx]

apply_gravity(p) == [p EXCEPT !.vy = Min(MAX_FALL, p.vy + GRAVITY)]

(* The horizontal solid loop: every solid in list order, against the       *)
(* rectangle as moved so far.                                              *)
RECURSIVE HorizontalResolve(_, _, _, _)
HorizontalResolve(r, vx, solids, i) ==
    IF i > Len(solids) THEN r
    ELSE LET s == solids[i]
             r2 == IF colliderect(r, s)
                   THEN IF vx > 0 THEN [r EXCEPT !.x = s.x - r.w]
                        ELSE IF vx < 0 THEN [r EXCEPT !.x = s.x + s.w]
                        ELSE r
                   ELSE r
         IN  HorizontalResolve(r2, vx, solids, i + 1)

(* The vertical loop: n pixel steps left.  Returns [player, lethal].       *)
RECURSIVE VerticalWalk(_, _, _, _, _)
VerticalWalk(p, step, n, solids, lethal_tips) ==
    IF n = 0 THEN [player |-> [p EXCEPT !.on_ground = FALSE], lethal |-> FALSE]
    ELSE LET r == [p.rect EXCEPT !.y = p.rect.y + step]
         IN  IF HitsAny(r, lethal_tips)
             THEN [player |-> [p EXCEPT !.rect = r], lethal |-> TRUE]
             ELSE LET hit == FirstHit(r, solids)
                  IN  IF hit # 0
                      THEN [player |->
                               [p EXCEPT !.rect = IF step > 0
                                                  THEN [r EXCEPT !.y = solids[hit].y - r.h]
                                                  ELSE [r EXCEPT !.y = solids[hit].y + solids[hit].h],
                                         !.vy = 0,
                                         !.on_ground = (step > 0)],
                            lethal |-> FALSE]
                      ELSE VerticalWalk([p EXCEPT !.rect = r], step, n - 1, solids, lethal_tips)

(* A variant that stops the body dead when the horizontal pass is blocked. *)
move_and_collide_stop(p, solids, lethal_tips) ==
    LET moved == [p.rect EXCEPT !.x = p.rect.x + PyRound(p.vx)]
    IN  IF HitsAny(moved, lethal_tips)
        THEN [player |-> [p EXCEPT !.rect = moved], lethal |-> TRUE]
        ELSE LET r == HorizontalResolve(moved, p.vx, solids, 1)
                 dy == PyRound(p.vy)
                 step == IF dy > 0 THEN 1 ELSE -1
             IN  IF r # moved
                 THEN [player |-> [p EXCEPT !.rect = r, !.vy = 0], lethal |-> FALSE]
                 ELSE VerticalWalk([p EXCEPT !.rect = r], step, Abs(dy), solids, lethal_tips)

move_and_collide(p, solids, lethal_tips) ==
    LET moved == [p.rect EXCEPT !.x = p.rect.x + PyRound(p.vx)]
    IN  IF HitsAny(moved, lethal_tips)
        THEN [player |-> [p EXCEPT !.rect = moved], lethal |-> TRUE]
        ELSE LET r == HorizontalResolve(moved, p.vx, solids, 1)
                 dy == PyRound(p.vy)
                 step == IF dy > 0 THEN 1 ELSE -1
             IN  VerticalWalk([p EXCEPT !.rect = r], step, Abs(dy), solids, lethal_tips)

-----------------------------------------------------------------------------
(* Scene helpers *)

in_door_safe_zone(player_rect, doors) ==
    LET infl == SAFE_ZONE_TILES * TILE
    IN  \E i \in 1..Len(doors) : colliderect(player_rect, inflate(doors[i], infl, infl))

(* A variant that keeps the hazard rectangles in a safe zone. *)
build_solids_unsafe(tilemap, stalactites, stalagmites, safe) ==
    tilemap.base_solids \o MapSeq(stalactites, solid_rect) \o MapSeq(stalagmites, solid_rect)

build_solids(tilemap, stalactites, stalagmites, safe) ==
    IF safe THEN tilemap.base_solids
    ELSE tilemap.base_solids \o MapSeq(stalactites, solid_rect) \o MapSeq(stalagmites, solid_rect)

collect_lethal_tips(stalactites, stalagmites, safe) ==
    IF safe THEN <<>>
    ELSE Flatten(MapSeq(stalactites, stalactite_tip_hitboxes))
           \o Flatten(MapSeq(stalagmites, stalagmite_tip_hitboxes))

clamp_player(player, tilemap) ==
    LET r1 == IF player.rect.x < 0 THEN [player.rect EXCEPT !.x = 0] ELSE player.rect
        r2 == IF r1.x + r1.w > tilemap.world_w THEN [r1 EXCEPT !.x = tilemap.world_w - r1.w] ELSE r1
        r3 == IF r2.y < 0 THEN [r2 EXCEPT !.y = 0] ELSE r2
    IN  [player EXCEPT !.rect = r3]

-----------------------------------------------------------------------------
(* SceneManager: the session object.  manager is a record                  *)
(*   scene               the current scene                                 *)
(*   last_esc_t          the time in ms since the recorded ESC             *)
(*                       (now - _last_esc_t), or NoEsc: _last_esc_t is     *)
(*                       None or older than the double-ESC window, which   *)
(*                       handle_global_event treats alike                  *)
(*   level2_lava_stage   the difficulty counter                            *)
(*   has_progress, collected_count, collected_ids   the progress ledger    *)
(*                       (has_progress: the two attributes exist)          *)
(*   base_hub, base_l1, base_l2   the stored base grids                    *)

VARIABLES manager, dt, last

vars == <<manager, dt, last>>

NoEsc == -1
START_X == 52

change(m, new_scene) == [m EXCEPT !.scene = new_scene]

(* A variant that clears the ledger whenever a scene is constructed. *)
ensure_global_progress_clear(m) ==
    [m EXCEPT !.has_progress = TRUE, !.collected_count = 0, !.collected_ids = {}]

ensure_global_progress(m) ==
    IF m.has_progress THEN m
    ELSE [m EXCEPT !.has_progress = TRUE, !.collected_count = 0, !.collected_ids = {}]

(* A variant that zeroes the count and keeps the set. *)
reset_global_progress_count(m) ==
    [m EXCEPT !.has_progress = TRUE, !.collected_count = 0]

reset_global_progress(m) ==
    [m EXCEPT !.has_progress = TRUE, !.collected_count = 0, !.collected_ids = {}]

on_level2_death(m) == [m EXCEPT !.level2_lava_stage = m.level2_lava_stage + 1]

(* A variant that floods whatever the cell holds. *)
LavaRow_flood(row, start_x, length) ==
    [i \in 1..Len(row) |->
        IF start_x <= i - 1 /\ i - 1 < start_x + length
        THEN "~" ELSE row[i]]

LavaRow(row, start_x, length) ==
    [i \in 1..Len(row) |->
        IF start_x <= i - 1 /\ i - 1 < start_x + length /\ row[i] = "."
        THEN "~" ELSE row[i]]

(* A variant whose strip slides right with the stage instead of growing.   *)
apply_level2_sliding_lava(grid, stage) ==
    IF stage <= 0 THEN grid
    ELSE LET W == Len(grid[1])
             H == Len(grid)
             lava_rows == {H - 4, H - 5}
         IN  [y \in 1..H |->
                IF y - 1 \in lava_rows /\ 0 <= y - 1 /\ y - 1 < H - 1
                THEN LavaRow(grid[y], START_X + stage * 6, 8)
                ELSE grid[y]]

apply_level2_progressive_lava(grid, stage) ==
    IF stage <= 0 THEN grid
    ELSE LET W == Len(grid[1])
             H == Len(grid)
             lava_rows == {H - 4, H - 5}
             length == Min(8 + stage * 6, W - START_X - 2)
         IN  [y \in 1..H |->
                IF y - 1 \in lava_rows /\ 0 <= y - 1 /\ y - 1 < H - 1
                THEN LavaRow(grid[y], START_X, length)
                ELSE grid[y]]

get_level_grid(m, level_id) ==
    IF level_id = 1 THEN m.base_l1
    ELSE IF level_id = 2 THEN apply_level2_progressive_lava(m.base_l2, m.level2_lava_stage)
    ELSE m.base_hub

-----------------------------------------------------------------------------
(* Scenes *)

IntroFrames == 5

(* IntroScene: index of the current frame and whether its typewriter text  *)
(* is done; the text of the last frame is empty, so it is done at once.    *)
IntroScene == [kind |-> "intro", index |-> 0, tw_done |-> FALSE]

MenuScene == [kind |-> "menu"]

WinScene == [kind |-> "win"]

HubScene ==
    LET map == TileMap(level_data_HUB)
    IN  [ kind |-> "hub",
          level_id |-> 0,
          map |-> map,
          player |-> Player(map.spawn_px),
          stalactites |-> build_stalactites(map),
          stalagmites |-> build_stalagmites(map),
          pending_reset |-> FALSE,
          death_timer |-> 0,
          lava_stun |-> FALSE,
          lava_timer |-> 0 ]

(* A variant that instantiates every group of the map. *)
LevelCollectibles_all(m, level_id, map) ==
    MapSeq(build_connected_groups(map.collectible_tiles),
           LAMBDA tiles : CollectibleGroup(level_id, tiles))

LevelCollectibles(m, level_id, map) ==
    SelectSeq(MapSeq(build_connected_groups(map.collectible_tiles),
                     LAMBDA tiles : CollectibleGroup(level_id, tiles)),
              LAMBDA grp : grp.uid \notin m.collected_ids)

LevelScene(m, level_id) ==
    LET map == TileMap(get_level_grid(m, level_id))
    IN  [ kind |-> "level",
          level_id |-> level_id,
          map |-> map,
          collectibles |-> LevelCollectibles(m, level_id, map),
          player |-> Player(map.spawn_px),
          stalactites |-> build_stalactites(map),
          stalagmites |-> build_stalagmites(map),
          pending_reset |-> FALSE,
          death_timer |-> 0,
          lava_stun |-> FALSE,
          lava_timer |-> 0 ]

(* manager.change(XScene(manager, ...)): the constructor runs first.       *)
enter_hub(m) == change(ensure_global_progress(m), HubScene)

enter_level(m, level_id) ==
    LET m1 == ensure_global_progress(m)
    IN  change(m1, LevelScene(m1, level_id))

(* A variant that opens the hub instead. *)
enter_win_hub(m) == change(ensure_global_progress(m), HubScene)

enter_win(m) == change(ensure_global_progress(m), WinScene)

(* A variant that opens the menu and keeps the difficulty. *)
go_menu_keep(m) == change(m, MenuScene)

go_menu(m) == change([m EXCEPT !.level2_lava_stage = 0], MenuScene)

start_game(m) == enter_hub([m EXCEPT !.level2_lava_stage = 0])

(* A variant that drops the delay. *)
schedule_reset_now(s, delay) ==
    IF s.pending_reset THEN s
    ELSE [s EXCEPT !.pending_reset = TRUE, !.death_timer = 0]

schedule_reset(s, delay) ==
    IF s.pending_reset THEN s
    ELSE [s EXCEPT !.pending_reset = TRUE, !.death_timer = delay]

start_lava_stun(s) ==
    IF s.lava_stun \/ s.pending_reset THEN s
    ELSE [s EXCEPT !.lava_stun = TRUE,
                   !.lava_timer = LAVA_STUN_S,
                   !.player = [s.player EXCEPT !.vx = 0, !.vy = 0]]

hub_do_reset(m) == enter_hub(reset_global_progress(m))

(* A variant that counts no death. *)
level_do_reset_nocount(m) == enter_level(reset_global_progress(m), m.scene.level_id)

(* A variant that counts the death after building the new instance. *)
level_do_reset_late(m) ==
    LET m1 == enter_level(reset_global_progress(m), m.scene.level_id)
    IN  IF m.scene.level_id = 2 THEN on_level2_death(m1) ELSE m1

level_do_reset(m) ==
    LET m1 == reset_global_progress(m)
        m2 == IF m.scene.level_id = 2 THEN on_level2_death(m1) ELSE m1
    IN  enter_level(m2, m.scene.level_id)

(* A variant of the loop without the membership check. *)
RECURSIVE CollectLoop_unguarded(_, _, _, _)
CollectLoop_unguarded(m, player_rect, i, remaining) ==
    LET groups == m.scene.collectibles
    IN  IF i > Len(groups) THEN [m EXCEPT !.scene.collectibles = remaining]
        ELSE IF touches(groups[i], player_rect)
             THEN CollectLoop_unguarded([m EXCEPT !.collected_ids = @ \cup {groups[i].uid},
                                                  !.collected_count = @ + 1],
                                        player_rect, i + 1, remaining)
             ELSE CollectLoop_unguarded(m, player_rect, i + 1, Append(remaining, groups[i]))

RECURSIVE CollectLoop(_, _, _, _)
CollectLoop(m, player_rect, i, remaining) ==
    LET groups == m.scene.collectibles
    IN  IF i > Len(groups) THEN [m EXCEPT !.scene.collectibles = remaining]
        ELSE IF touches(groups[i], player_rect)
             THEN IF groups[i].uid \notin m.collected_ids
                  THEN CollectLoop([m EXCEPT !.collected_ids = @ \cup {groups[i].uid},
                                             !.collected_count = @ + 1],
                                   player_rect, i + 1, remaining)
                  ELSE CollectLoop(m, player_rect, i + 1, remaining)
             ELSE CollectLoop(m, player_rect, i + 1, Append(remaining, groups[i]))

collect_consumables(m) == CollectLoop(m, m.scene.player.rect, 1, <<>>)

(* The countdown branches that open HubScene.update and LevelScene.update: *)
(* the scene after the step, and whether do_reset is due.                  *)
(* A variant whose body keeps falling while the reset is pending. *)
countdown_falling(s, d) ==
    IF s.lava_stun
    THEN LET t == s.lava_timer - d
         IN  [ scene |-> IF t <= 0
                         THEN [schedule_reset([s EXCEPT !.lava_timer = t], 0) EXCEPT !.lava_stun = FALSE]
                         ELSE [s EXCEPT !.lava_timer = t],
               reset |-> FALSE ]
    ELSE LET t == s.death_timer - d
         IN  [ scene |-> [s EXCEPT !.death_timer = t, !.player = apply_gravity(s.player)],
               reset |-> t <= 0 ]

(* A variant whose stun expiry leaves the stun flag set. *)
countdown_keepstun(s, d) ==
    IF s.lava_stun
    THEN LET t == s.lava_timer - d
         IN  [ scene |-> IF t <= 0
                         THEN schedule_reset([s EXCEPT !.lava_timer = t], 0)
                         ELSE [s EXCEPT !.lava_timer = t],
               reset |-> FALSE ]
    ELSE LET t == s.death_timer - d
         IN  [ scene |-> [s EXCEPT !.death_timer = t], reset |-> t <= 0 ]

(* A variant whose stun expiry schedules the reset with the spike delay. *)
countdown_delayed(s, d) ==
    IF s.lava_stun
    THEN LET t == s.lava_timer - d
         IN  [ scene |-> IF t <= 0
                         THEN [schedule_reset([s EXCEPT !.lava_timer = t], DEATH_COOLDOWN_S)
                                  EXCEPT !.lava_stun = FALSE]
                         ELSE [s EXCEPT !.lava_timer = t],
               reset |-> FALSE ]
    ELSE LET t == s.death_timer - d
         IN  [ scene |-> [s EXCEPT !.death_timer = t], reset |-> t <= 0 ]

countdown(s, d) ==
    IF s.lava_stun
    THEN LET t == s.lava_timer - d
         IN  [ scene |-> IF t <= 0
                         THEN [schedule_reset([s EXCEPT !.lava_timer = t], 0) EXCEPT !.lava_stun = FALSE]
                         ELSE [s EXCEPT !.lava_timer = t],
               reset |-> FALSE ]
    ELSE LET t == s.death_timer - d
         IN  [ scene |-> [s EXCEPT !.death_timer = t], reset |-> t <= 0 ]

(* Normal play up to clamp_player: lava check, stalactites, solids and     *)
(* lethal tips, input, gravity, movement.                                  *)
play_frame(s, keys) ==
    IF HitsAny(s.player.rect, s.map.lava)
    THEN [outcome |-> "lava", scene |-> start_lava_stun(s)]
    ELSE LET safe == in_door_safe_zone(s.player.rect, s.map.doors)
             sts == IF safe THEN s.stalactites
                    ELSE MapSeq(s.stalactites,
                                LAMBDA st : stalactite_update(st, s.map.base_solids, s.player.rect))
             solids == build_solids(s.map, sts, s.stalagmites, safe)
             lethal == collect_lethal_tips(sts, s.stalagmites, safe)
             mv == move_and_collide(apply_gravity(handle_input(s.player, keys)), solids, lethal)
         IN  IF mv.lethal
             THEN [ outcome |-> "lethal",
                    scene |-> schedule_reset([s EXCEPT !.stalactites = sts, !.player = mv.player],
                                             DEATH_COOLDOWN_S) ]
             ELSE [ outcome |-> "ok",
                    scene |-> [s EXCEPT !.stalactites = sts,
                                        !.player = clamp_player(mv.player, s.map)] ]

DoorChars == {"D", "1", "2", "R", "F"}

(* What the door check saw: the tile under the body when the interact key  *)
(* is held and the tile is a door character, "" otherwise.                 *)
InteractTile(s, keys) ==
    LET t == tile_under_player(s.map, s.player.rect)
    IN  IF keys.e /\ t \in DoorChars THEN t ELSE ""

(* A variant whose second door opens level 1 as well. *)
hub_update_door1(m, keys, d) ==
    LET s == m.scene
    IN  IF s.lava_stun \/ s.pending_reset
        THEN LET c == countdown(s, d)
             IN  [ manager |-> IF c.reset THEN hub_do_reset(change(m, c.scene))
                               ELSE change(m, c.scene),
                   e_tile |-> "" ]
        ELSE LET f == play_frame(s, keys)
             IN  IF f.outcome # "ok" THEN [manager |-> change(m, f.scene), e_tile |-> ""]
                 ELSE LET m1 == change(m, f.scene)
                          tile == tile_under_player(f.scene.map, f.scene.player.rect)
                      IN  [ manager |-> IF keys.e /\ tile \in {"1", "2"} THEN enter_level(m1, 1)
                                        ELSE m1,
                            e_tile |-> InteractTile(f.scene, keys) ]

(* HubScene.update; returns the manager and the door-check observation.    *)
hub_update(m, keys, d) ==
    LET s == m.scene
    IN  IF s.lava_stun \/ s.pending_reset
        THEN LET c == countdown(s, d)
             IN  [ manager |-> IF c.reset THEN hub_do_reset(change(m, c.scene))
                               ELSE change(m, c.scene),
                   e_tile |-> "" ]
        ELSE LET f == play_frame(s, keys)
             IN  IF f.outcome # "ok" THEN [manager |-> change(m, f.scene), e_tile |-> ""]
                 ELSE LET m1 == change(m, f.scene)
                          tile == tile_under_player(f.scene.map, f.scene.player.rect)
                      IN  [ manager |-> IF keys.e /\ tile = "1" THEN enter_level(m1, 1)
                                        ELSE IF keys.e /\ tile = "2" THEN enter_level(m1, 2)
                                        ELSE m1,
                            e_tile |-> InteractTile(f.scene, keys) ]

(* A variant that tests the exit threshold before the frame's pickups. *)
level_update_doorfirst(m, keys, d) ==
    LET s == m.scene
    IN  IF s.lava_stun \/ s.pending_reset
        THEN LET c == countdown(s, d)
             IN  [ manager |-> IF c.reset THEN level_do_reset(change(m, c.scene))
                               ELSE change(m, c.scene),
                   e_tile |-> "" ]
        ELSE LET f == play_frame(s, keys)
             IN  IF f.outcome # "ok" THEN [manager |-> change(m, f.scene), e_tile |-> ""]
                 ELSE LET m1 == collect_consumables(change(m, f.scene))
                          tile == tile_under_player(f.scene.map, f.scene.player.rect)
                      IN  [ manager |->
                               IF keys.e /\ tile \in {"D", "R", "F"}
                               THEN IF m.collected_count >= REQUIRED_CONSUMABLES
                                    THEN enter_win(m1) ELSE enter_hub(m1)
                               ELSE m1,
                            e_tile |-> InteractTile(f.scene, keys) ]

(* LevelScene.update *)
level_update(m, keys, d) ==
    LET s == m.scene
    IN  IF s.lava_stun \/ s.pending_reset
        THEN LET c == countdown(s, d)
             IN  [ manager |-> IF c.reset THEN level_do_reset(change(m, c.scene))
                               ELSE change(m, c.scene),
                   e_tile |-> "" ]
        ELSE LET f == play_frame(s, keys)
             IN  IF f.outcome # "ok" THEN [manager |-> change(m, f.scene), e_tile |-> ""]
                 ELSE LET m1 == collect_consumables(change(m, f.scene))
                          tile == tile_under_player(f.scene.map, f.scene.player.rect)
                      IN  [ manager |->
                               IF keys.e /\ tile \in {"D", "R"}
                               THEN IF m1.collected_count >= REQUIRED_CONSUMABLES
                                    THEN enter_win(m1) ELSE enter_hub(m1)
                               ELSE IF keys.e /\ tile = "F"
                               THEN IF m1.collected_count >= REQUIRED_CONSUMABLES
                                    THEN enter_win(m1) ELSE enter_hub(m1)
                               ELSE m1,
                            e_tile |-> InteractTile(f.scene, keys) ]

(* IntroScene.update: the typewriter of the current frame advances; when   *)
(* it shows its last character is left open (finishes).                    *)
intro_update(m, finishes) ==
    IF m.scene.tw_done \/ ~finishes THEN m
    ELSE [m EXCEPT !.scene.tw_done = TRUE]

-----------------------------------------------------------------------------
(* Events.  ev is [type, key]: type KEYDOWN with key ESC, RETURN, SPACE or *)
(* OTHER, or type MOUSEBUTTONDOWN.                                         *)

IsKey(ev, keys) == ev.type = "KEYDOWN" /\ ev.key \in keys

intro_handle_event(m, ev) ==
    LET s == m.scene
        is_last == s.index = IntroFrames - 1
    IN  IF ev.type \notin {"KEYDOWN", "MOUSEBUTTONDOWN"} THEN m
        ELSE IF is_last THEN go_menu(m)
        ELSE IF ~s.tw_done THEN [m EXCEPT !.scene.tw_done = TRUE]
        ELSE [m EXCEPT !.scene.index = s.index + 1,
                       !.scene.tw_done = (s.index + 1 = IntroFrames - 1)]

menu_handle_event(m, ev) ==
    IF IsKey(ev, {"RETURN"}) \/ ev.type = "MOUSEBUTTONDOWN" THEN start_game(m) ELSE m

level_handle_event(m, ev) ==
    IF IsKey(ev, {"ESC"}) THEN enter_hub(m) ELSE m

win_handle_event(m, ev) ==
    IF IsKey(ev, {"RETURN", "SPACE", "ESC"}) THEN enter_hub(reset_global_progress(m)) ELSE m

scene_handle_event(m, ev) ==
    CASE m.scene.kind = "intro" -> intro_handle_event(m, ev)
      [] m.scene.kind = "menu" -> menu_handle_event(m, ev)
      [] m.scene.kind = "hub" -> m
      [] m.scene.kind = "level" -> level_handle_event(m, ev)
      [] m.scene.kind = "win" -> win_handle_event(m, ev)

(* A variant that tells no second ESC from a first. *)
handle_global_event_single(m, ev) ==
    IF IsKey(ev, {"ESC"})
    THEN [manager |-> [m EXCEPT !.last_esc_t = 0], consumed |-> FALSE]
    ELSE [manager |-> m, consumed |-> FALSE]

handle_global_event(m, ev) ==
    IF IsKey(ev, {"ESC"})
    THEN IF m.last_esc_t # NoEsc /\ m.last_esc_t <= DOUBLE_ESC_WINDOW_S
         THEN [manager |-> go_menu([m EXCEPT !.last_esc_t = NoEsc]), consumed |-> TRUE]
         ELSE [manager |-> [m EXCEPT !.last_esc_t = 0], consumed |-> FALSE]
    ELSE [manager |-> m, consumed |-> FALSE]

(* The event loop body of main(): the global handler, then the scene's.    *)
dispatch_event(m, ev) ==
    LET g == handle_global_event(m, ev)
    IN  IF g.consumed THEN [manager |-> g.manager, delivered |-> FALSE]
        ELSE [manager |-> scene_handle_event(g.manager, ev), delivered |-> TRUE]

(* clock.tick at the top of a frame: d ms pass.                            *)
clock_tick(m, d) ==
    IF m.last_esc_t = NoEsc THEN m
    ELSE IF m.last_esc_t + d > DOUBLE_ESC_WINDOW_S THEN [m EXCEPT !.last_esc_t = NoEsc]
    ELSE [m EXCEPT !.last_esc_t = m.last_esc_t + d]

-----------------------------------------------------------------------------
(* The state machine: the loop of main().  A state is taken inside a       *)
(* frame, after its clock.tick; dt is that frame's time.  An update step   *)
(* runs the frame's scene.update(dt) and the clock.tick that opens the     *)
(* next frame.  last records, of the latest step, whether it was an ESC    *)
(* key-down and then whether main() handed it to scene.handle_event or the *)
(* global handler consumed it, and the door tile an interact check saw.    *)

(* Held keys; a and d held together cancel to vx = 0 like neither.         *)
Keys == {k \in [a : BOOLEAN, d : BOOLEAN, jump : BOOLEAN, e : BOOLEAN] : ~(k.a /\ k.d)}

KeyDownEvents == {[type |-> "KEYDOWN", key |-> k] : k \in {"ESC", "RETURN", "SPACE", "OTHER"}}
MouseEvent == [type |-> "MOUSEBUTTONDOWN", key |-> ""]

SceneManager ==
    [ scene |-> IntroScene,
      last_esc_t |-> NoEsc,
      level2_lava_stage |-> 0,
      has_progress |-> FALSE,
      collected_count |-> 0,
      collected_ids |-> {},
      base_hub |-> level_data_HUB,
      base_l1 |-> level_data_LEVEL1,
      base_l2 |-> level_data_LEVEL2 ]

Init ==
    /\ manager = SceneManager
    /\ dt \in DtSet
    /\ last = [esc |-> "none", e_tile |-> ""]

(* manager.scene.update(dt) of a Hub or Level scene ends the frame.        *)
UpdatePlay ==
    /\ manager.scene.kind \in {"hub", "level"}
    /\ \E keys \in Keys :
          \E r \in {IF manager.scene.kind = "hub"
                    THEN hub_update(manager, keys, dt)
                    ELSE level_update(manager, keys, dt)} :
              /\ r.manager.level2_lava_stage <= MaxStage
              /\ last' = [esc |-> "none", e_tile |-> r.e_tile]
              /\ \E nd \in DtSet :
                    /\ manager' = clock_tick(r.manager, nd)
                    /\ dt' = nd

(* The update of an Intro, Menu or Win scene ends the frame.               *)
UpdateOther ==
    /\ manager.scene.kind \in {"intro", "menu", "win"}
    /\ \E finishes \in BOOLEAN, nd \in DtSet :
          /\ manager' = clock_tick(IF manager.scene.kind = "intro"
                                   THEN intro_update(manager, finishes)
                                   ELSE manager, nd)
          /\ dt' = nd
          /\ last' = [esc |-> "none", e_tile |-> ""]

(* One event of the frame's event queue. *)
HandleEvent ==
    \E ev \in KeyDownEvents \cup {MouseEvent} :
        \E r \in {dispatch_event(manager, ev)} :
            /\ manager' = r.manager
            /\ dt' = dt
            /\ last' = [esc |-> IF ~IsKey(ev, {"ESC"}) THEN "none"
                                ELSE IF r.delivered THEN "delivered" ELSE "consumed",
                        e_tile |-> ""]

Next == UpdatePlay \/ UpdateOther \/ HandleEvent

Spec == Init /\ [][Next]_vars

-----------------------------------------------------------------------------
(* The grid of level 2 as a function of the stored base grid and the       *)
(* difficulty counter: the session starts in the hub over a base grid      *)
(* drawn from a family (widths at and beyond the strip's start, heights    *)
(* with two, one and no lava row above row 0, rows holding walls, lava and *)
(* collectibles), and the level is entered and died in.                    *)

GridWidths == {53, 58, 70}
GridHeights == {4, 5, 6}
RowPatterns == {"empty", "walls", "mixed"}

PatternCell(k, x) ==
    CASE k = "empty" -> "."
      [] k = "walls" -> IF x % 3 = 0 THEN "#" ELSE "."
      [] k = "mixed" -> IF x % 4 = 1 THEN LAVA_CHAR
                        ELSE IF x % 4 = 3 THEN CONSUMABLE_CHAR ELSE "."

BaseGrid(W, H, p1, p2) ==
    [y \in 1..H |->
        [x \in 1..W |->
            IF y = H THEN "#"
            ELSE IF y - 1 = H - 4 THEN PatternCell(p1, x - 1)
            ELSE IF y - 1 = H - 5 THEN PatternCell(p2, x - 1)
            ELSE IF y - 1 = H - 2 /\ x - 1 = 2 THEN "P"
            ELSE IF y - 1 = H - 3 /\ x - 1 = 40 THEN "F"
            ELSE "."]]

BaseGrids ==
    {BaseGrid(W, H, p1, p2) : W \in GridWidths, H \in GridHeights,
                              p1 \in RowPatterns, p2 \in RowPatterns}

InitGrid ==
    /\ \E g \in BaseGrids : manager = start_game([SceneManager EXCEPT !.base_l2 = g])
    /\ dt \in DtSet
    /\ last = [esc |-> "none", e_tile |-> ""]

(* The hub's door to level 2: LevelScene asks get_level_grid for the grid. *)
GridRequest ==
    /\ manager.scene.kind = "hub"
    /\ manager' = enter_level(manager, 2)
    /\ UNCHANGED <<dt, last>>

(* A death in level 2: do_reset counts it and builds the level again.      *)
GridDeath ==
    /\ manager.scene.kind = "level"
    /\ manager.level2_lava_stage < MaxStage
    /\ manager' = level_do_reset(manager)
    /\ UNCHANGED <<dt, last>>

NextGrid == GridRequest \/ GridDeath

SpecGrid == InitGrid /\ [][NextGrid]_vars

-----------------------------------------------------------------------------
(* Body movement as a function of the body and the solids: a scene over a  *)
(* grid with a floor, a wall, a platform and a stalagmite, the body drawn  *)
(* at every free position of a lattice with each pair of velocities, and   *)
(* move_and_collide applied frame after frame as update applies it (a      *)
(* lethal report schedules the reset).  Here last also records the body as *)
(* it was before the latest movement.                                      *)

MoveGrid ==
    << <<".", ".", ".", ".", ".", ".", ".", ".">>,
       <<".", ".", ".", ".", ".", ".", ".", ".">>,
       <<".", ".", ".", ".", ".", "#", ".", ".">>,
       <<".", ".", ".", ".", ".", "#", ".", ".">>,
       <<".", ".", "=", ".", ".", "#", ".", "v">>,
       <<"#", "#", "#", "#", "#", "#", "#", "#">> >>

MoveVx == {-MOVE_SPEED, MOVE_SPEED}
MoveVy == {-JUMP_VEL + GRAVITY, -MOVE_SPEED, GRAVITY, 7 * GRAVITY, MAX_FALL}

MoveScene(p) ==
    LET map == TileMap(MoveGrid)
    IN  [ kind |-> "hub",
          level_id |-> 0,
          map |-> map,
          player |-> p,
          stalactites |-> build_stalactites(map),
          stalagmites |-> build_stalagmites(map),
          pending_reset |-> FALSE,
          death_timer |-> 0,
          lava_stun |-> FALSE,
          lava_timer |-> 0 ]

(* The solids and lethal hitboxes update hands to the movement outside a   *)
(* safe zone.                                                              *)
SceneSolids(s) == build_solids(s.map, s.stalactites, s.stalagmites, FALSE)
SceneTips(s) == collect_lethal_tips(s.stalactites, s.stalagmites, FALSE)

MoveBodies ==
    {p \in {[Player(<<4 * i, 8 * j>>) EXCEPT !.vx = vx, !.vy = vy] :
                i \in 0..24, j \in 0..6, vx \in MoveVx, vy \in MoveVy} :
        /\ ~HitsAny(p.rect, SceneSolids(MoveScene(p)))
        /\ ~HitsAny(p.rect, SceneTips(MoveScene(p)))}

InitMove ==
    /\ \E p \in MoveBodies : manager = change(SceneManager, MoveScene(p))
    /\ dt \in DtSet
    /\ last = [esc |-> "none", e_tile |-> "", moved |-> FALSE]

MoveApply ==
    /\ ~manager.scene.pending_reset
    /\ \E mv \in {move_and_collide(manager.scene.player, SceneSolids(manager.scene),
                                    SceneTips(manager.scene))} :
          /\ manager' = change(manager,
                               IF mv.lethal
                               THEN schedule_reset([manager.scene EXCEPT !.player = mv.player],
                                                   DEATH_COOLDOWN_S)
                               ELSE [manager.scene EXCEPT !.player = mv.player])
          /\ last' = [esc |-> "none", e_tile |-> "", moved |-> TRUE,
                      body |-> manager.scene.player]
    /\ dt' = dt

NextMove == MoveApply

SpecMove == InitMove /\ [][NextMove]_vars

-----------------------------------------------------------------------------
(* The grid parser as a function of the grid: the session starts in the    *)
(* hub with the stored grid of level 1 drawn from a family (no row, rows   *)
(* of equal and of differing lengths, empty rows; cells of every           *)
(* character the parser tells apart), and the level is entered, which      *)
(* parses the grid, and left with ESC.                                     *)

ParseRowLens == {0, 2, 4}
ParseHeights == 0..3
ParsePatterns == {"empty", "solid", "mixed"}

ParseChars == <<"P", "D", "^", "v", LAVA_CHAR, CONSUMABLE_CHAR, ".", "1", "#", "=", "2", "R", "F">>

ParseCell(k, x, y) ==
    CASE k = "empty" -> "."
      [] k = "solid" -> IF (x + y) % 2 = 0 THEN "#" ELSE "="
      [] k = "mixed" -> ParseChars[((x + 5 * y) % Len(ParseChars)) + 1]

ParseGrid(lens, k) == [y \in 1..Len(lens) |-> [x \in 1..lens[y] |-> ParseCell(k, x - 1, y - 1)]]

ParseGrids ==
    {ParseGrid(lens, k) : lens \in UNION {[1..h -> ParseRowLens] : h \in ParseHeights},
                          k \in ParsePatterns}

InitParse ==
    /\ \E g \in ParseGrids : manager = start_game([SceneManager EXCEPT !.base_l1 = g])
    /\ dt \in DtSet
    /\ last = [esc |-> "none", e_tile |-> ""]

(* The hub's door to level 1: LevelScene builds the TileMap of the grid.   *)
ParseRequest ==
    /\ manager.scene.kind = "hub"
    /\ manager' = enter_level(manager, 1)
    /\ UNCHANGED <<dt, last>>

(* ESC in the level: back to the hub. *)
ParseReturn ==
    /\ manager.scene.kind = "level"
    /\ manager' = level_handle_event(manager, [type |-> "KEYDOWN", key |-> "ESC"])
    /\ UNCHANGED <<dt, last>>

NextParse == ParseRequest \/ ParseReturn

SpecParse == InitParse /\ [][NextParse]_vars

-----------------------------------------------------------------------------
(* The run merge as a function of the anchor points: a scene whose map     *)
(* holds up to MaxPoints stalactite anchors, drawn as every sequence of    *)
(* distinct points of a lattice of four columns and two rows (the          *)
(* parser's row-by-row order among them), and build_stalactites applied.   *)

MaxPoints == 4

RunCols == 5..8
RunRows == 0..1

RunsGrid(P) ==
    [y \in 1..3 |->
        [x \in 1..10 |-> IF y = 3 THEN "#" ELSE IF <<x - 1, y - 1>> \in P THEN "^" ELSE "."]]

PointSeqs ==
    {pts \in UNION {[1..n -> RunCols \X RunRows] : n \in 0..MaxPoints} :
        \A i, j \in 1..Len(pts) : i # j => pts[i] # pts[j]}

RunsScene(pts) ==
    LET map == [TileMap(RunsGrid(SeqToSet(pts))) EXCEPT !.stalact_anchors = pts]
    IN  [ kind |-> "hub",
          level_id |-> 0,
          map |-> map,
          player |-> Player(map.spawn_px),
          stalactites |-> <<>>,
          stalagmites |-> <<>>,
          pending_reset |-> FALSE,
          death_timer |-> 0,
          lava_stun |-> FALSE,
          lava_timer |-> 0 ]

InitRuns ==
    /\ \E pts \in PointSeqs : manager = change(SceneManager, RunsScene(pts))
    /\ dt \in DtSet
    /\ last = [esc |-> "none", e_tile |-> ""]

RunsBuild ==
    /\ manager.scene.stalactites = <<>>
    /\ manager.scene.map.stalact_anchors # <<>>
    /\ manager' = [manager EXCEPT !.scene.stalactites = build_stalactites(manager.scene.map)]
    /\ UNCHANGED <<dt, last>>

NextRuns == RunsBuild

SpecRuns == InitRuns /\ [][NextRuns]_vars

-----------------------------------------------------------------------------
(* Properties *)

InPlay(k) == k \in {"hub", "level"}

(* A step that keeps the scene instance: the scene object is replaced only *)
(* by manager.change, which a playing scene reaches through do_reset (out  *)
(* of pending_reset into a fresh, not pending, instance) or by changing    *)
(* the scene kind or level.                                                *)
SameInstance ==
    /\ InPlay(manager.scene.kind)
    /\ manager'.scene.kind = manager.scene.kind
    /\ manager'.scene.level_id = manager.scene.level_id
    /\ manager'.scene.map = manager.scene.map
    /\ manager.scene.pending_reset => manager'.scene.pending_reset

(* C1: within one scene instance a stalactite only moves forward           *)
(* PINNED -> FALLING -> RESTED: falling never returns to false, landed     *)
(* never returns to false, and once landed no step changes its position,   *)
(* velocity or flags.                                                      *)
C1_StalactiteForward ==
    [][SameInstance =>
         \A i \in DOMAIN manager.scene.stalactites :
             LET st == manager.scene.stalactites[i]
                 st2 == manager'.scene.stalactites[i]
             IN  /\ st.falling => st2.falling
                 /\ st.landed => st2.landed
                 /\ st.landed => st2 = st]_vars

(* A stalactite has fallen from its anchor and rests, with the body no     *)
(* longer under it.                                                        *)
C1_Witness ==
    /\ manager.scene.kind = "level"
    /\ \E i \in DOMAIN manager.scene.stalactites :
          LET st == manager.scene.stalactites[i]
          IN  /\ st.landed /\ st.falling /\ st.y > st.anchor_y
              /\ ~should_trigger(st, manager.scene.player.rect)

(* Every collectible group of the scene's map, collected or not. *)
AllGroups(s) ==
    MapSeq(build_connected_groups(s.map.collectible_tiles),
           LAMBDA tiles : CollectibleGroup(s.level_id, tiles))

Uids(groups) == {g.uid : g \in groups}

TouchedBy(groups, player_rect) == {g \in groups : touches(g, player_rect)}

(* The count equals the number of keys collected since the last reset. *)
C2_CountIsKeys == manager.collected_count = Cardinality(manager.collected_ids)

(* collect_consumables run with every group of the map resident, whatever  *)
(* the ledger holds: the count grows by the touched keys not yet in the    *)
(* set, and every touched group leaves the active list.                    *)
C2_Resident ==
    manager.scene.kind = "level" =>
        LET all == AllGroups(manager.scene)
            touched == TouchedBy(SeqToSet(all), manager.scene.player.rect)
            r == collect_consumables([manager EXCEPT !.scene.collectibles = all])
        IN  /\ r.collected_ids = manager.collected_ids \cup Uids(touched)
            /\ r.collected_count =
                   manager.collected_count + Cardinality(Uids(touched) \ manager.collected_ids)
            /\ SeqToSet(r.scene.collectibles) = SeqToSet(all) \ touched

(* A step either clears the ledger or only adds keys, one count each; the  *)
(* added keys are those of active groups of the level, and in a step that  *)
(* keeps the scene instance exactly those the body touches after moving.   *)
C2_Step ==
    LET ids == manager.collected_ids
        new == manager'.collected_ids \ ids
    IN  \/ manager'.collected_ids = {} /\ manager'.collected_count = 0
        \/ /\ ids \subseteq manager'.collected_ids
           /\ manager'.collected_count = manager.collected_count + Cardinality(new)
           /\ new # {} =>
                 /\ manager.scene.kind = "level"
                 /\ new \subseteq Uids(SeqToSet(manager.scene.collectibles))
           /\ (manager.scene.kind = "level" /\ SameInstance) =>
                 LET touched == TouchedBy(SeqToSet(manager.scene.collectibles),
                                          manager'.scene.player.rect)
                 IN  \/ /\ new = Uids(touched)
                        /\ SeqToSet(manager'.scene.collectibles) =
                              SeqToSet(manager.scene.collectibles) \ touched
                     \/ /\ new = {}
                        /\ manager'.scene.collectibles = manager.scene.collectibles
                        /\ \/ manager'.scene.lava_stun \/ manager'.scene.pending_reset
                           \/ manager'.scene = manager.scene

(* C2: between two ledger resets the collected count grows by exactly 1    *)
(* the first time the body touches a tile of a collectible group and never *)
(* again for that group key, over frames, level exits and re-entries; a    *)
(* touched group whose key is already collected leaves the active list     *)
(* and the count stays.                                                    *)
C2_ExactlyOnce == [](C2_CountIsKeys /\ C2_Resident) /\ [][C2_Step]_vars

(* Back in level 1 with keys of both levels collected, the body stands on  *)
(* a tile of a group it collected earlier.                                 *)
C2_Witness ==
    /\ manager.scene.kind = "level" /\ manager.scene.level_id = 1
    /\ \E u \in manager.collected_ids : u[1] = 2
    /\ \E g \in TouchedBy(SeqToSet(AllGroups(manager.scene)), manager.scene.player.rect) :
          g.uid \in manager.collected_ids
    /\ manager.collected_count = Cardinality(manager.collected_ids)
    /\ manager.collected_count >= 3

(* C3: at every frame boundary of a Level scene no group of the active     *)
(* collectible list has its key in the global collected set; a level       *)
(* entered after one of its groups was collected does not contain it.      *)
C3_ActiveNotCollected ==
    manager.scene.kind = "level" =>
        \A i \in DOMAIN manager.scene.collectibles :
            manager.scene.collectibles[i].uid \notin manager.collected_ids

(* A level has just been entered from the hub with one of its groups       *)
(* already collected and another still active.                             *)
C3_Witness ==
    /\ manager.scene.kind = "level"
    /\ last.e_tile \in {"1", "2"}
    /\ manager.scene.collectibles # <<>>
    /\ \E g \in SeqToSet(AllGroups(manager.scene)) :
          /\ g.uid \in manager.collected_ids
          /\ g \notin SeqToSet(manager.scene.collectibles)

ExitChars == {"D", "R", "F"}

NormalPlay(s) == ~s.lava_stun /\ ~s.pending_reset

(* After an interact on an exit tile the scene is Win with the count at    *)
(* least REQUIRED_CONSUMABLES, or the Hub with the count below it.         *)
C4_ExitGoes ==
    last.e_tile \in ExitChars =>
        \/ manager.scene.kind = "win" /\ manager.collected_count >= REQUIRED_CONSUMABLES
        \/ manager.scene.kind = "hub" /\ manager.collected_count < REQUIRED_CONSUMABLES

(* Win is entered only from a Level scene in normal play by an interact on *)
(* an exit tile, with the count reached.                                   *)
C4_WinOnlyByExit ==
    (manager'.scene.kind = "win" /\ manager.scene.kind # "win") =>
        /\ manager.scene.kind = "level"
        /\ NormalPlay(manager.scene)
        /\ last'.e_tile \in ExitChars
        /\ manager'.collected_count >= REQUIRED_CONSUMABLES

(* C4: in a Level scene in normal play, interacting on an exit tile (D, R  *)
(* or F) goes to Win if and only if the collected count is at least        *)
(* REQUIRED_CONSUMABLES, to the Hub otherwise; Win is entered no other way.*)
C4_ExitToWinOrHub == []C4_ExitGoes /\ [][C4_WinOnlyByExit]_vars

(* The Win scene was just entered through an exit door. *)
C4_Witness ==
    /\ manager.scene.kind = "win"
    /\ last.e_tile \in ExitChars
    /\ manager.collected_count >= REQUIRED_CONSUMABLES

(* A step that is the scene's update and keeps the scene kind: an event    *)
(* leaves a Hub or Level scene as it is or leaves for another scene kind.  *)
UpdateOf ==
    /\ InPlay(manager.scene.kind)
    /\ manager'.scene.kind = manager.scene.kind
    /\ manager'.scene # manager.scene

(* Touching lava in normal play: the update enters LAVA_STUN for           *)
(* LAVA_STUN_S with the velocity zeroed and nothing else done.             *)
C5_EntersStun ==
    (UpdateOf /\ NormalPlay(manager.scene)
       /\ HitsAny(manager.scene.player.rect, manager.scene.map.lava)) =>
        /\ manager'.scene =
              [manager.scene EXCEPT !.lava_stun = TRUE,
                                    !.lava_timer = LAVA_STUN_S,
                                    !.player = [@ EXCEPT !.vx = 0, !.vy = 0]]
        /\ manager'.collected_ids = manager.collected_ids
        /\ manager'.level2_lava_stage = manager.level2_lava_stage

(* The stun counts dt down; when the total reaches LAVA_STUN_S the scene   *)
(* is PENDING_RESET with delay 0, still the same instance.                 *)
C5_StunCounts ==
    (UpdateOf /\ manager.scene.lava_stun) =>
        LET t == manager.scene.lava_timer - dt
        IN  /\ manager'.scene =
                  IF t <= 0
                  THEN [manager.scene EXCEPT !.lava_timer = t, !.lava_stun = FALSE,
                                             !.pending_reset = TRUE, !.death_timer = 0]
                  ELSE [manager.scene EXCEPT !.lava_timer = t]
            /\ manager.scene.lava_timer <= LAVA_STUN_S
            /\ ~manager.scene.pending_reset
            /\ manager'.collected_ids = manager.collected_ids
            /\ manager'.level2_lava_stage = manager.level2_lava_stage

(* The update of a PENDING_RESET scene whose delay has run out replaces it *)
(* by a fresh instance of the same scene with the ledger cleared, and      *)
(* counts a death of level 2.                                              *)
C5_ResetFresh ==
    (UpdateOf /\ ~manager.scene.lava_stun /\ manager.scene.pending_reset
       /\ manager.scene.death_timer - dt <= 0) =>
        /\ manager'.collected_count = 0 /\ manager'.collected_ids = {}
        /\ manager'.scene = IF manager.scene.kind = "hub" THEN HubScene
                            ELSE LevelScene(manager', manager.scene.level_id)
        /\ manager'.level2_lava_stage =
              IF manager.scene.kind = "level" /\ manager.scene.level_id = 2
              THEN manager.level2_lava_stage + 1
              ELSE manager.level2_lava_stage

(* C5: lava touched in normal play starts LAVA_STUN; once the dt of later  *)
(* updates adds up to LAVA_STUN_S the scene is PENDING_RESET with zero     *)
(* delay and the next update replaces it by a fresh instance of the same   *)
(* scene, the ledger cleared and the difficulty counter one higher if the  *)
(* scene was level 2.                                                      *)
C5_LavaReset == [][C5_EntersStun /\ C5_StunCounts /\ C5_ResetFresh]_vars

(* Level 2 has just been rebuilt after its first death (lava is its only   *)
(* hazard in reach), at difficulty 1 with an empty ledger.                 *)
C5_Witness ==
    /\ manager.scene.kind = "level" /\ manager.scene.level_id = 2
    /\ manager.level2_lava_stage = 1
    /\ manager.scene = LevelScene(manager, 2)
    /\ manager.collected_count = 0
    /\ last.e_tile = ""

Safe(s) == in_door_safe_zone(s.player.rect, s.map.doors)

(* In a safe zone the solids handed to the movement are the static ones    *)
(* and no lethal hitbox is handed over.                                    *)
C6_SafeSets ==
    (InPlay(manager.scene.kind) /\ Safe(manager.scene)) =>
        LET s == manager.scene
        IN  /\ build_solids(s.map, s.stalactites, s.stalagmites, Safe(s)) = s.map.base_solids
            /\ collect_lethal_tips(s.stalactites, s.stalagmites, Safe(s)) = <<>>

(* A normal-play update that starts in a safe zone ends in no death, does  *)
(* not move a stalactite, and moves the body as the static solids alone    *)
(* allow (the keys held are read back from the velocity it leaves).        *)
C6_SafeFrame ==
    (UpdateOf /\ NormalPlay(manager.scene) /\ Safe(manager.scene)) =>
        LET s == manager.scene
            s2 == manager'.scene
        IN  /\ ~s2.pending_reset
            /\ s2.stalactites = s.stalactites
            /\ ~HitsAny(s.player.rect, s.map.lava) =>
                  \E jump \in BOOLEAN :
                     LET keys == [a |-> s2.player.vx < 0, d |-> s2.player.vx > 0,
                                  jump |-> jump, e |-> FALSE]
                         mv == move_and_collide(apply_gravity(handle_input(s.player, keys)),
                                                s.map.base_solids, <<>>)
                     IN  ~mv.lethal /\ s2.player = clamp_player(mv.player, s.map)

(* C6: a normal-play frame that starts with the body inside a door's safe  *)
(* zone uses exactly the static solids and no lethal hitbox, and cannot    *)
(* end in a hazard death even with a hazard hitbox over the body.          *)
C6_DoorSafeZone == []C6_SafeSets /\ [][C6_SafeFrame]_vars

(* The body stands in a door's safe zone with a lethal tip over it, after  *)
(* a frame that started in the safe zone the same way.                     *)
C6_Witness ==
    /\ manager.scene.kind = "level"
    /\ NormalPlay(manager.scene)
    /\ Safe(manager.scene)
    /\ HitsAny(manager.scene.player.rect,
               collect_lethal_tips(manager.scene.stalactites, manager.scene.stalagmites, FALSE))
    /\ manager.scene.player.rect.x = manager.scene.map.world_w - manager.scene.player.rect.w

LavaTiles(grid) ==
    {c \in (1..GridW(grid)) \X (1..GridH(grid)) : grid[c[2]][c[1]] = LAVA_CHAR}

GridAt(n) == get_level_grid([manager EXCEPT !.level2_lava_stage = n], 2)

(* C7: the lava tiles of the level-2 grid requested at counter n + 1       *)
(* include those of the grid requested at counter n, and the grid          *)
(* requested at counter 0 is the base grid unmodified.                     *)
C7_LavaGrows ==
    LET n == manager.level2_lava_stage
    IN  /\ LavaTiles(GridAt(n)) \subseteq LavaTiles(GridAt(n + 1))
        /\ GridAt(0) = manager.base_l2
        /\ manager.scene.kind = "level" => manager.scene.map.grid = GridAt(n)

(* Level 2 rebuilt after a death over a base grid with lava of its own:    *)
(* the grid in use has the base lava and more.                             *)
C7_Witness ==
    /\ manager.scene.kind = "level"
    /\ manager.level2_lava_stage >= 1
    /\ LavaTiles(manager.base_l2) # {}
    /\ LavaTiles(manager.base_l2) \subseteq LavaTiles(manager.scene.map.grid)
    /\ LavaTiles(manager.scene.map.grid) # LavaTiles(manager.base_l2)
    /\ LavaTiles(GridAt(manager.level2_lava_stage + 1)) # LavaTiles(manager.scene.map.grid)

(* The update that runs do_reset of a level-2 scene. *)
Level2Death ==
    /\ UpdateOf
    /\ manager.scene.kind = "level" /\ manager.scene.level_id = 2
    /\ ~manager.scene.lava_stun /\ manager.scene.pending_reset
    /\ manager.scene.death_timer - dt <= 0

(* C8 as stated: over any sequence of events the difficulty counter never  *)
(* decreases.                                                              *)
C8_NeverDecreases ==
    [][manager'.level2_lava_stage >= manager.level2_lava_stage]_vars

(* C8 amended: a step leaves the difficulty counter at 0 when it opens or  *)
(* leaves the menu, adds 1 when it is the death reset of level 2, and      *)
(* leaves it unchanged otherwise.                                          *)
C8_CounterSteps ==
    [][LET n == manager.level2_lava_stage
           n2 == manager'.level2_lava_stage
       IN  IF manager'.scene.kind = "menu" \/ manager.scene.kind = "menu" THEN n2 = 0
           ELSE IF Level2Death THEN n2 = n + 1
           ELSE n2 = n]_vars

(* After a death in level 2 the session is back in play with a first ESC   *)
(* recorded: the counter is 1 and a second ESC in the window opens the     *)
(* menu.                                                                   *)
C8_Witness ==
    /\ manager.level2_lava_stage >= 1
    /\ InPlay(manager.scene.kind)
    /\ manager.last_esc_t # NoEsc

(* The update that runs do_reset of a Hub or Level scene. *)
DeathReset ==
    /\ UpdateOf
    /\ ~manager.scene.lava_stun /\ manager.scene.pending_reset
    /\ manager.scene.death_timer - dt <= 0

(* The Win scene is acknowledged: it is left for the hub. *)
WinAck == manager.scene.kind = "win" /\ manager'.scene.kind = "hub"

(* The scene is replaced by one of another kind. *)
Transition == manager'.scene.kind # manager.scene.kind

(* A level is left through an exit door, at the end of an update that ran  *)
(* collect_consumables first.                                              *)
DoorExit == manager.scene.kind = "level" /\ last'.e_tile \in ExitChars

(* C9: the ledger (collected count and key set) is cleared only by a death *)
(* reset of a Hub or Level scene and by acknowledging Win; hub to level,   *)
(* level to hub by door or ESC, level to Win and double ESC to the menu    *)
(* leave count and set as they are (a door exit as the pickups of its own  *)
(* frame left them).                                                       *)
C9_LedgerCleared ==
    [][LET ids == manager.collected_ids
           ids2 == manager'.collected_ids
           n == manager.collected_count
           n2 == manager'.collected_count
       IN  IF DeathReset \/ WinAck THEN n2 = 0 /\ ids2 = {}
           ELSE /\ ids \subseteq ids2 /\ n2 >= n
                /\ (Transition /\ ~DoorExit) => (n2 = n /\ ids2 = ids)
                /\ DoorExit =>
                      /\ ids2 \ ids \subseteq Uids(SeqToSet(manager.scene.collectibles))
                      /\ n2 = n + Cardinality(ids2 \ ids)]_vars

(* The menu, opened by a double ESC, with collected keys still in the      *)
(* ledger.                                                                 *)
C9_Witness ==
    /\ manager.scene.kind = "menu"
    /\ manager.collected_count >= 2
    /\ manager.collected_ids # {}

(* C10: an ESC key-down that arrives within DOUBLE_ESC_WINDOW_S of the     *)
(* recorded first ESC replaces the current scene by the menu, whatever the *)
(* scene kind and state, and it is not handed to the scene.                *)
C10_DoubleEsc ==
    [][(last'.esc # "none" /\ manager.last_esc_t # NoEsc) =>
          /\ manager.last_esc_t <= DOUBLE_ESC_WINDOW_S
          /\ manager'.scene = MenuScene
          /\ manager'.last_esc_t = NoEsc
          /\ last'.esc = "consumed"]_vars

(* The menu has just been opened by the second ESC, which the scene did    *)
(* not see.                                                                *)
C10_Witness ==
    /\ manager.scene.kind = "menu"
    /\ last.esc = "consumed"
    /\ manager.last_esc_t = NoEsc

(* The scene a door leads to: a hub door to its level, a level's exit to   *)
(* Win with the count reached and to the Hub otherwise.                    *)
Destination(m, kind, tile) ==
    CASE kind = "hub" /\ tile = "1" -> LevelScene(m, 1)
      [] kind = "hub" /\ tile = "2" -> LevelScene(m, 2)
      [] kind = "level" /\ tile \in ExitChars ->
            IF m.collected_count >= REQUIRED_CONSUMABLES THEN WinScene ELSE HubScene

HandledDoors(kind) == IF kind = "hub" THEN {"1", "2"} ELSE ExitChars

(* The update of this frame run with the given keys held. *)
UpdateWith(keys) ==
    IF manager.scene.kind = "hub" THEN hub_update(manager, keys, dt)
    ELSE level_update(manager, keys, dt)

(* C11 as stated: in a normal-play frame without lava or lethal contact,   *)
(* if the body rectangle overlaps a door rectangle at the door check and   *)
(* interact is held, the scene is replaced in that frame.                  *)
C11_OverlapTransitions ==
    (InPlay(manager.scene.kind) /\ NormalPlay(manager.scene)) =>
        \A keys \in Keys :
            LET f == play_frame(manager.scene, keys)
            IN  (keys.e /\ f.outcome = "ok"
                   /\ HitsAny(f.scene.player.rect, f.scene.map.doors)) =>
                    UpdateWith(keys).manager.scene.kind # manager.scene.kind

(* C11 amended: in a normal-play frame without lava or lethal contact, if  *)
(* at the door check the tile under the body's centre is a door the scene  *)
(* handles (hub: 1, 2; level: D, R, F) and interact is held, the scene is  *)
(* replaced in that frame by the door's destination; an update of normal   *)
(* play replaces the scene by one of another kind in no other case.        *)
C11_DoorTransition ==
    [][/\ last'.e_tile # "" =>
             /\ InPlay(manager.scene.kind) /\ NormalPlay(manager.scene)
             /\ ~HitsAny(manager.scene.player.rect, manager.scene.map.lava)
       /\ (InPlay(manager.scene.kind) /\ last'.e_tile \in HandledDoors(manager.scene.kind)) =>
             manager'.scene = Destination(manager', manager.scene.kind, last'.e_tile)
       /\ (InPlay(manager.scene.kind) /\ last'.esc = "none" /\ Transition) =>
             last'.e_tile \in HandledDoors(manager.scene.kind)]_vars

(* Level 2 has just been entered through the hub's second door. *)
C11_Witness ==
    /\ last.e_tile = "2"
    /\ manager.scene.kind = "level" /\ manager.scene.level_id = 2
    /\ manager.scene.player.rect.x = manager.scene.map.spawn_px[1]

(* The horizontally moved body meets a solid. *)
HBlocked(p, solids) ==
    \E i \in 1..Len(solids) :
        colliderect([p.rect EXCEPT !.x = p.rect.x + PyRound(p.vx)], solids[i])

(* The body at column x meets a solid within its vertical delta. *)
VBlocked(p, x, solids) ==
    LET dy == PyRound(p.vy)
    IN  \E k \in 1..Abs(dy), i \in 1..Len(solids) :
            colliderect([p.rect EXCEPT !.x = x,
                                       !.y = p.rect.y + (IF dy > 0 THEN k ELSE -k)],
                        solids[i])

(* C12: in move_and_collide with both velocity components non-zero and no  *)
(* lethal contact, when a solid blocks only the horizontal motion the body *)
(* ends displaced vertically by its full vertical delta, and when a solid  *)
(* blocks only the vertical motion it ends displaced horizontally by its   *)
(* full horizontal delta.                                                  *)
C12_AxesIndependent ==
    [][LET p == manager.scene.player
           q == manager'.scene.player
           solids == SceneSolids(manager.scene)
       IN  (p.vx # 0 /\ p.vy # 0 /\ ~manager.scene.pending_reset
              /\ ~manager'.scene.pending_reset) =>
               /\ (HBlocked(p, solids) /\ ~VBlocked(p, q.rect.x, solids)) =>
                     /\ q.rect.y = p.rect.y + PyRound(p.vy)
                     /\ q.vy = p.vy
               /\ (~HBlocked(p, solids) /\ VBlocked(p, p.rect.x + PyRound(p.vx), solids)) =>
                     /\ q.rect.x = p.rect.x + PyRound(p.vx)
                     /\ q.vy = 0]_vars

(* A falling body that moved right into the wall: it rests against the     *)
(* wall's side, short of its horizontal delta, and went down by its whole  *)
(* vertical delta.                                                         *)
C12_Witness ==
    /\ last.moved /\ ~manager.scene.pending_reset
    /\ last.body.vx > 0 /\ last.body.vy > 0
    /\ HBlocked(last.body, SceneSolids(manager.scene))
    /\ manager.scene.player.rect.x < last.body.rect.x + PyRound(last.body.vx)
    /\ manager.scene.player.rect.y = last.body.rect.y + PyRound(last.body.vy)
    /\ PyRound(last.body.vy) > 1

(* C13: for every grid the three synthetic cage rectangles (left, right,   *)
(* top) are in the static solids after parsing, bordering the grid, and no *)
(* pixel of an in-grid cell (0 <= x < world_w, 0 <= y < world_h) lies      *)
(* inside one of them.                                                     *)
C13_CageOutside ==
    manager.scene.kind = "level" =>
        LET map == manager.scene.map
            n == Len(map.base_solids)
            left == map.base_solids[n - 2]
            right == map.base_solids[n - 1]
            top == map.base_solids[n]
        IN  /\ n = Len(CellsOf(map.grid, {"#", "="})) + 3
            /\ left = Rect(-TILE, 0, TILE, map.world_h)
            /\ right = Rect(map.world_w, 0, TILE, map.world_h)
            /\ top = Rect(0, -TILE, map.world_w, TILE)
            /\ \A px \in 0..(map.world_w - 1), py \in 0..(map.world_h - 1) :
                   \A c \in SeqToSet(CageRects(map.world_w, map.world_h)) :
                       c \in SeqToSet(map.base_solids) /\ ~collidepoint(c, px, py)

(* A level parsed from a grid of three rows of four cells with solid tiles *)
(* in its first and last columns.                                          *)
C13_Witness ==
    /\ manager.scene.kind = "level"
    /\ manager.scene.map.w = 4 /\ manager.scene.map.h = 3
    /\ \A y \in 1..3 : Len(manager.scene.map.grid[y]) = 4
    /\ manager.scene.map.grid[1][1] = "#" /\ manager.scene.map.grid[2][4] = "#"
    /\ Len(manager.scene.map.base_solids) > 3

(* A grid as the parser expects it: at least one row, all rows of one      *)
(* length.                                                                 *)
WellFormed(grid) == Len(grid) > 0 /\ \A y \in 1..Len(grid) : Len(grid[y]) = Len(grid[1])

(* C15: constructing the level geometry from a malformed grid (no row, or  *)
(* rows of differing lengths) fails; no tile map and no scene is built     *)
(* from such a grid.                                                       *)
C15_MalformedRejected ==
    manager.scene.kind = "level" => WellFormed(manager.scene.map.grid)

(* C14: build_contiguous_runs returns for each row exactly the maximal     *)
(* runs of consecutive columns present in that row: every point lies in    *)
(* exactly one run of its row, no run holds a column absent from the       *)
(* input, no run can be extended by a present column, no row is listed     *)
(* twice or without a point, and the stalactite groups built are those     *)
(* runs; columns 5, 6, 8 of row 0 give (5, 6) and (8, 8).                  *)
C14_MaximalRuns ==
    LET pts == manager.scene.map.stalact_anchors
        P == SeqToSet(pts)
        R == build_contiguous_runs(pts)
    IN  /\ \A k1, k2 \in DOMAIN R : k1 # k2 => R[k1].y # R[k2].y
        /\ {R[k].y : k \in DOMAIN R} = {p[2] : p \in P}
        /\ \A p \in P :
               Cardinality({kj \in {<<k, j>> : k \in DOMAIN R, j \in 1..Len(pts)} :
                               /\ kj[2] \in DOMAIN R[kj[1]].runs
                               /\ R[kj[1]].y = p[2]
                               /\ R[kj[1]].runs[kj[2]][1] <= p[1]
                               /\ p[1] <= R[kj[1]].runs[kj[2]][2]}) = 1
        /\ \A k \in DOMAIN R : \A j \in DOMAIN R[k].runs :
               LET x0 == R[k].runs[j][1]
                   x1 == R[k].runs[j][2]
               IN  /\ x0 <= x1
                   /\ \A x \in x0..x1 : <<x, R[k].y>> \in P
                   /\ <<x0 - 1, R[k].y>> \notin P
                   /\ <<x1 + 1, R[k].y>> \notin P
        /\ P = {<<5, 0>>, <<6, 0>>, <<8, 0>>} =>
               R = << [y |-> 0, runs |-> << <<5, 6>>, <<8, 8>> >>] >>
        /\ manager.scene.stalactites # <<>> =>
               /\ SeqToSet(manager.scene.stalactites) =
                      {StalactiteGroup(y, x0, x1) : <<y, x0, x1>> \in
                          UNION {{<<R[k].y, R[k].runs[j][1], R[k].runs[j][2]>> :
                                     j \in DOMAIN R[k].runs} : k \in DOMAIN R}}
               /\ Len(manager.scene.stalactites) =
                      Cardinality(SeqToSet(manager.scene.stalactites))

(* The groups built from the anchors 8, 5, 6 of row 0, given in that       *)
(* order, and one anchor of row 1 above column 7: (5, 6) and (8, 8) in row *)
(* 0, not joined through the row below.                                    *)
C14_Witness ==
    /\ manager.scene.map.stalact_anchors = << <<8, 0>>, <<7, 1>>, <<5, 0>>, <<6, 0>> >>
    /\ manager.scene.stalactites =
          << StalactiteGroup(0, 5, 6), StalactiteGroup(0, 8, 8), StalactiteGroup(1, 7, 7) >>

NoKeys == [a |-> FALSE, d |-> FALSE, jump |-> FALSE, e |-> FALSE]

(* Whatever keys are held, the update of a stunned or pending scene does   *)
(* the same.                                                               *)
C16_Intents ==
    (InPlay(manager.scene.kind) /\ ~NormalPlay(manager.scene)) =>
        \A keys \in Keys : UpdateWith(keys) = UpdateWith(NoKeys)

(* An update of a stunned or pending scene that is not the reset changes   *)
(* the running timer by dt and, at the stun's expiry, the two flags and    *)
(* the delay; body, hazards, map, collectibles, ledger and difficulty stay.*)
C16_Step ==
    (UpdateOf /\ ~NormalPlay(manager.scene) /\ ~DeathReset) =>
        LET s == manager.scene
            s2 == manager'.scene
        IN  /\ s2.player = s.player
            /\ s2.stalactites = s.stalactites
            /\ s2.stalagmites = s.stalagmites
            /\ s2.map = s.map
            /\ s.kind = "level" => s2.collectibles = s.collectibles
            /\ manager'.collected_count = manager.collected_count
            /\ manager'.collected_ids = manager.collected_ids
            /\ manager'.level2_lava_stage = manager.level2_lava_stage
            /\ IF s.lava_stun
               THEN /\ s2.lava_timer = s.lava_timer - dt
                    /\ s2.lava_timer > 0 => s2 = [s EXCEPT !.lava_timer = s.lava_timer - dt]
               ELSE s2 = [s EXCEPT !.death_timer = s.death_timer - dt]

(* C16: during every update in which a Hub or Level scene is in LAVA_STUN  *)
(* or PENDING_RESET only the countdown timer changes; the body's position  *)
(* and velocity, every stalactite, the active collectible list and the     *)
(* ledger are unchanged and the intents have no effect, until the expiry   *)
(* that triggers the reset.                                                *)
C16_OnlyTimer == []C16_Intents /\ [][C16_Step]_vars

(* A level whose reset is pending, half of the cooldown counted down, with *)
(* a stalactite stopped in mid-fall and the body stopped in mid-air.       *)
C16_Witness ==
    /\ manager.scene.kind = "level"
    /\ manager.scene.pending_reset
    /\ manager.scene.death_timer = DEATH_COOLDOWN_S - 250
    /\ \E i \in DOMAIN manager.scene.stalactites :
          manager.scene.stalactites[i].falling /\ ~manager.scene.stalactites[i].landed
    /\ manager.scene.player.vy # 0

(* The lethal hitboxes and solids update hands to the movement this frame, *)
(* after the stalactites' own update.                                      *)
FrameStalactites(s) ==
    IF Safe(s) THEN s.stalactites
    ELSE MapSeq(s.stalactites, LAMBDA st : stalactite_update(st, s.map.base_solids, s.player.rect))

FrameMove(s, keys) ==
    move_and_collide(apply_gravity(handle_input(s.player, keys)),
                     build_solids(s.map, FrameStalactites(s), s.stalagmites, Safe(s)),
                     collect_lethal_tips(FrameStalactites(s), s.stalagmites, Safe(s)))

(* Whenever the movement of a normal-play frame reports lethal contact the *)
(* update leaves the same scene PENDING_RESET with DEATH_COOLDOWN_S to go. *)
C17_LethalSchedules ==
    (InPlay(manager.scene.kind) /\ NormalPlay(manager.scene)
       /\ ~HitsAny(manager.scene.player.rect, manager.scene.map.lava)) =>
        \A keys \in Keys :
            FrameMove(manager.scene, keys).lethal =>
                LET r == UpdateWith(keys).manager
                IN  /\ r.scene.kind = manager.scene.kind
                    /\ r.scene.level_id = manager.scene.level_id
                    /\ r.scene.map = manager.scene.map
                    /\ r.scene.pending_reset /\ ~r.scene.lava_stun
                    /\ r.scene.death_timer = DEATH_COOLDOWN_S
                    /\ r.level2_lava_stage = manager.level2_lava_stage

(* A pending scene is kept while the dt counted stays below the delay and  *)
(* is replaced by a new instance of the same kind and level at the first   *)
(* update where it does not; normal play turns pending only with the full  *)
(* cooldown to go.                                                         *)
C17_Countdown ==
    LET s == manager.scene
        s2 == manager'.scene
    IN  /\ (UpdateOf /\ NormalPlay(s) /\ s2.pending_reset) =>
              /\ s2.death_timer = DEATH_COOLDOWN_S
              /\ SameInstance
        /\ (UpdateOf /\ ~s.lava_stun /\ s.pending_reset) =>
              IF s.death_timer - dt > 0
              THEN SameInstance /\ s2.pending_reset /\ s2.death_timer = s.death_timer - dt
              ELSE /\ s2.kind = s.kind /\ s2.level_id = s.level_id
                   /\ NormalPlay(s2)
                   /\ s2 = IF s.kind = "hub" THEN HubScene ELSE LevelScene(manager', s.level_id)
        /\ (InPlay(s.kind) /\ s.pending_reset /\ ~(UpdateOf /\ s.death_timer - dt <= 0)
              /\ s2.kind = s.kind) => s2.pending_reset

(* C17: lethal contact reported by the body movement puts the Hub or Level *)
(* scene in PENDING_RESET with a timer of DEATH_COOLDOWN_S; the scene is   *)
(* not replaced while the dt of later updates adds up to less, and at the  *)
(* first update where it reaches the cooldown the scene is replaced by a   *)
(* new instance of the same scene kind and level identifier.               *)
C17_LethalReset == []C17_LethalSchedules /\ [][C17_Countdown]_vars

(* A level just put in PENDING_RESET by a lethal hitbox under the body,    *)
(* the whole cooldown still to go.                                         *)
C17_Witness ==
    /\ manager.scene.kind = "level"
    /\ manager.scene.pending_reset
    /\ manager.scene.death_timer = DEATH_COOLDOWN_S
    /\ HitsAny(manager.scene.player.rect, SceneTips(manager.scene))

(* C18: a reset of level 2 adds exactly 1 to the difficulty counter before *)
(* the new instance is built, so the new instance's grid is the            *)
(* transformation of the base grid at the incremented counter; a reset of  *)
(* level 1 or of the Hub leaves the counter as it is.                      *)
C18_ResetCounts ==
    [][DeathReset =>
          LET s == manager.scene
              n == manager.level2_lava_stage
          IN  IF s.kind = "level" /\ s.level_id = 2
              THEN /\ manager'.level2_lava_stage = n + 1
                   /\ manager'.scene.level_id = 2
                   /\ manager'.scene.map =
                          TileMap(apply_level2_progressive_lava(manager.base_l2, n + 1))
              ELSE /\ manager'.level2_lava_stage = n
                   /\ manager'.scene.map.grid = s.map.grid
                   /\ s.map.grid = IF s.kind = "hub" THEN level_data_HUB ELSE manager.base_l1]_vars

(* Level 2 stands on the grid of the counter a death raised, with more     *)
(* lava than the base grid holds.                                          *)
C18_Witness ==
    /\ manager.scene.kind = "level" /\ manager.scene.level_id = 2
    /\ manager.level2_lava_stage >= 1
    /\ manager.scene.map.grid = GridAt(manager.level2_lava_stage)
    /\ manager.scene.map.grid # GridAt(manager.level2_lava_stage - 1)
    /\ Len(manager.scene.map.lava) > Len(TileMap(manager.base_l2).lava)

(* C19: a normal-play frame of a Level scene runs lava check, stalactite   *)
(* update, body movement, collectible pickup, door check in this order.    *)
(* A frame that starts on lava only starts the stun, whatever keys are     *)
(* held; a frame whose movement (against the stalactites as just updated)  *)
(* reports lethal contact only schedules the reset, with no pickup and no  *)
(* transition; otherwise the groups the moved body touches are counted,    *)
(* and the exit threshold is tested on the count that includes them.       *)
C19_FrameOrder ==
    (manager.scene.kind = "level" /\ NormalPlay(manager.scene)) =>
        LET s == manager.scene
        IN  \A keys \in Keys : \A r \in {UpdateWith(keys).manager} :
               IF HitsAny(s.player.rect, s.map.lava)
               THEN r = change(manager,
                               [s EXCEPT !.lava_stun = TRUE, !.lava_timer = LAVA_STUN_S,
                                         !.player = [@ EXCEPT !.vx = 0, !.vy = 0]])
               ELSE \A sts \in {FrameStalactites(s)} : \A mv \in {FrameMove(s, keys)} :
                      IF mv.lethal
                      THEN r = change(manager,
                                      [s EXCEPT !.stalactites = sts, !.player = mv.player,
                                                !.pending_reset = TRUE,
                                                !.death_timer = DEATH_COOLDOWN_S])
                      ELSE LET body == clamp_player(mv.player, s.map)
                               touched == TouchedBy(SeqToSet(s.collectibles), body.rect)
                               count == manager.collected_count
                                          + Cardinality(Uids(touched) \ manager.collected_ids)
                           IN  /\ r.collected_count = count
                               /\ r.collected_ids = manager.collected_ids \cup Uids(touched)
                               /\ r.scene =
                                     IF keys.e /\ tile_under_player(s.map, body.rect) \in ExitChars
                                     THEN IF count >= REQUIRED_CONSUMABLES
                                          THEN WinScene ELSE HubScene
                                     ELSE [s EXCEPT !.stalactites = sts, !.player = body,
                                                    !.collectibles =
                                                        SelectSeq(s.collectibles,
                                                                  LAMBDA g : g \notin touched)]

(* A level just put in PENDING_RESET by a frame whose movement ended on a  *)
(* lethal hitbox with the body over a collectible group it had not touched *)
(* before: the group is still active and not counted.                      *)
C19_Witness ==
    /\ manager.scene.kind = "level"
    /\ manager.scene.pending_reset
    /\ manager.scene.death_timer = DEATH_COOLDOWN_S
    /\ \E g \in SeqToSet(manager.scene.collectibles) :
          touches(g, manager.scene.player.rect) /\ g.uid \notin manager.collected_ids

Pinned(st) == ~st.falling /\ ~st.landed

(* The body's horizontal centre lies within the stalactite's span shrunk   *)
(* by the pad on each side and its top edge is below the anchor height     *)
(* plus one tile.                                                          *)
Underneath(st, player_rect) ==
    /\ player_rect.x + player_rect.w \div 2 >= st.x + STALACT_TRIGGER_PAD
    /\ player_rect.x + player_rect.w \div 2 <= st.x + st.w - STALACT_TRIGGER_PAD
    /\ player_rect.y > st.anchor_y + TILE

(* C20 as stated: in every normal-play frame a PINNED stalactite becomes   *)
(* FALLING exactly when the body is underneath it at frame start, and      *)
(* otherwise stays PINNED with position and velocity unchanged.            *)
C20_TriggersEveryFrame ==
    [][(UpdateOf /\ NormalPlay(manager.scene)) =>
          \A i \in DOMAIN manager.scene.stalactites :
              LET st == manager.scene.stalactites[i]
                  st2 == manager'.scene.stalactites[i]
              IN  Pinned(st) =>
                     IF Underneath(st, manager.scene.player.rect)
                     THEN st2.falling
                     ELSE st2 = st]_vars

(* C20 amended: in every normal-play frame that starts neither on lava nor *)
(* inside a door's safe zone a PINNED stalactite becomes FALLING (and      *)
(* makes its first move) exactly when the body is underneath it at frame   *)
(* start; in every other normal-play frame it stays PINNED with position   *)
(* and velocity unchanged.                                                 *)
C20_TriggerRule ==
    [][(UpdateOf /\ NormalPlay(manager.scene)) =>
          \A i \in DOMAIN manager.scene.stalactites :
              LET s == manager.scene
                  st == s.stalactites[i]
                  st2 == manager'.scene.stalactites[i]
              IN  Pinned(st) =>
                     IF /\ ~HitsAny(s.player.rect, s.map.lava)
                        /\ ~Safe(s)
                        /\ Underneath(st, s.player.rect)
                     THEN st2.falling /\ (st2.landed \/ st2.y > st.y)
                     ELSE st2 = st]_vars

(* A stalactite in the first frame of its fall, the body underneath it and *)
(* outside every safe zone, next to one that stays pinned.                 *)
C20_Witness ==
    /\ manager.scene.kind = "level"
    /\ NormalPlay(manager.scene)
    /\ \E i, j \in DOMAIN manager.scene.stalactites :
          /\ manager.scene.stalactites[i].falling
          /\ manager.scene.stalactites[i].vy = STALACT_FALL_GRAV
          /\ manager.scene.stalactites[i].y = manager.scene.stalactites[i].anchor_y + 1
          /\ Pinned(manager.scene.stalactites[j])

-----------------------------------------------------------------------------
(* A long fall: the session plays level 1 over a shaft tall enough for a   *)
(* stalactite to reach the max-fall clamp before it lands, with a door     *)
(* whose safe zone starts right of the stalactite's column.  The body      *)
(* walks left and right on the floor.                                      *)
FallRows == 20
FallRow(k) ==
    IF k = 1 THEN <<".", "^", ".", ".", ".", ".">>
    ELSE IF k = FallRows - 2 THEN <<"P", ".", ".", ".", ".", ".">>
    ELSE IF k = FallRows - 1 THEN <<".", ".", ".", ".", ".", "D">>
    ELSE IF k = FallRows THEN <<"#", "#", "#", "#", "#", "#">>
    ELSE <<".", ".", ".", ".", ".", ".">>
FallGrid == [k \in 1..FallRows |-> FallRow(k)]

FallKeys == {k \in Keys : ~k.jump /\ ~k.e}

InitFall ==
    /\ manager = enter_level(start_game([SceneManager EXCEPT !.base_l1 = FallGrid]), 1)
    /\ dt \in DtSet
    /\ last = [esc |-> "none", e_tile |-> ""]

(* manager.scene.update(dt) of the level ends the frame.                   *)
FallFrame ==
    /\ manager.scene.kind = "level"
    /\ \E keys \in FallKeys :
          \E r \in {level_update(manager, keys, dt)} :
              /\ last' = [esc |-> "none", e_tile |-> r.e_tile]
              /\ \E nd \in DtSet :
                    /\ manager' = clock_tick(r.manager, nd)
                    /\ dt' = nd

NextFall == FallFrame

SpecFall == InitFall /\ [][NextFall]_vars

Falling(st) == st.falling /\ ~st.landed

(* C21 as stated: in every normal-play frame a stalactite that is FALLING  *)
(* and not RESTED lands, or has its velocity raised by STALACT_FALL_GRAV   *)
(* up to STALACT_MAX_FALL and moves down by at least one pixel.            *)
C21_FallsEveryFrame ==
    [][(UpdateOf /\ NormalPlay(manager.scene)) =>
          \A i \in DOMAIN manager.scene.stalactites :
              LET st == manager.scene.stalactites[i]
                  st2 == manager'.scene.stalactites[i]
              IN  Falling(st) =>
                     \/ st2.landed
                     \/ /\ st2.vy = Min(STALACT_MAX_FALL, st.vy + STALACT_FALL_GRAV)
                        /\ st2.y >= st.y + 1]_vars

(* C21 amended: in every normal-play frame that starts neither on lava nor *)
(* inside a door's safe zone a stalactite that is FALLING and not RESTED   *)
(* has its velocity raised by STALACT_FALL_GRAV up to STALACT_MAX_FALL and *)
(* moves down by that velocity rounded, at least one pixel, or lands with  *)
(* velocity 0; in a normal-play frame that starts on lava or inside a safe *)
(* zone it does not move.                                                  *)
C21_FallRule ==
    [][(UpdateOf /\ NormalPlay(manager.scene)) =>
          \A i \in DOMAIN manager.scene.stalactites :
              LET s == manager.scene
                  st == s.stalactites[i]
                  st2 == manager'.scene.stalactites[i]
                  v == IF st.vy + STALACT_FALL_GRAV > STALACT_MAX_FALL
                       THEN STALACT_MAX_FALL ELSE st.vy + STALACT_FALL_GRAV
              IN  Falling(st) =>
                     IF ~HitsAny(s.player.rect, s.map.lava) /\ ~Safe(s)
                     THEN /\ st2.falling
                          /\ IF st2.landed
                             THEN st2.vy = 0
                             ELSE /\ st2.vy = v
                                  /\ st2.y >= st.y + 1
                                  /\ st2.y = st.y + PyRound(v)
                     ELSE st2 = st]_vars

(* A stalactite still falling at the max-fall clamp, the frame after its   *)
(* velocity would have passed it.                                          *)
C21_Witness ==
    /\ manager.scene.kind = "level"
    /\ NormalPlay(manager.scene)
    /\ \E i \in DOMAIN manager.scene.stalactites :
          /\ Falling(manager.scene.stalactites[i])
          /\ manager.scene.stalactites[i].vy = STALACT_MAX_FALL
          /\ manager.scene.stalactites[i].y > manager.scene.stalactites[i].anchor_y

-----------------------------------------------------------------------------
(* Landings: the session plays level 1 over a grid drawn from a family     *)
(* with one stalactite and a solid tile LandDepths rows under its anchor   *)
(* (0: none, the stalactite falls to the floor).                           *)
LandDepths == 0..3

LandRow(k, d) ==
    IF k = 1 THEN <<".", "^", ".", ".", ".", ".">>
    ELSE IF k = 5 THEN <<".", ".", "P", ".", ".", ".">>
    ELSE IF k = 6 THEN <<".", ".", ".", ".", ".", "D">>
    ELSE IF k = 7 THEN <<"#", "#", "#", "#", "#", "#">>
    ELSE IF k = d + 1 THEN <<".", "#", ".", ".", ".", ".">>
    ELSE <<".", ".", ".", ".", ".", ".">>
LandGrid(d) == [k \in 1..7 |-> LandRow(k, d)]

InitLand ==
    /\ \E d \in LandDepths :
          manager = enter_level(start_game([SceneManager EXCEPT !.base_l1 = LandGrid(d)]), 1)
    /\ dt \in DtSet
    /\ last = [esc |-> "none", e_tile |-> ""]

NextLand == FallFrame

SpecLand == InitLand /\ [][NextLand]_vars

(* C22: a stalactite that becomes RESTED has its bottom edge on the top    *)
(* edge of a static solid under it, velocity 0, a rectangle that overlaps  *)
(* no static solid, and a position not above the one it held before (the   *)
(* body and the other hazards play no part: only static solids are named). *)
C22_RestsOnSolid ==
    [][(UpdateOf /\ SameInstance) =>
          \A i \in DOMAIN manager.scene.stalactites :
              LET st == manager.scene.stalactites[i]
                  st2 == manager'.scene.stalactites[i]
                  solids == manager.scene.map.base_solids
              IN  (~st.landed /\ st2.landed) =>
                     /\ \E k \in DOMAIN solids :
                           /\ solids[k].y = st2.y + st2.h
                           /\ solids[k].x < st2.x + st2.w
                           /\ st2.x < solids[k].x + solids[k].w
                     /\ st2.vy = 0
                     /\ ~HitsAny(solid_rect(st2), solids)
                     /\ st2.y >= st.y
                     /\ st2.y >= st2.anchor_y]_vars

(* C23: at every frame boundary of a Hub or Level scene, in every scene    *)
(* state, the body rectangle has left >= 0, right <= world width and       *)
(* top >= 0.                                                               *)
C23_InsidePlayfield ==
    InPlay(manager.scene.kind) =>
        /\ manager.scene.player.rect.x >= 0
        /\ manager.scene.player.rect.x + manager.scene.player.rect.w <= manager.scene.map.world_w
        /\ manager.scene.player.rect.y >= 0

-----------------------------------------------------------------------------
(* Jumps: the session plays level 1 over a shaft with head room: a floor,  *)
(* a ledge the rising body hits from below on the left and can land on     *)
(* from the right, and open space above.                                   *)
JumpGrid ==
    << <<".", ".", ".">>,
       <<".", ".", ".">>,
       <<".", ".", ".">>,
       <<"=", ".", ".">>,
       <<".", ".", ".">>,
       <<".", "P", ".">>,
       <<".", ".", ".">>,
       <<"#", "#", "#">> >>

JumpKeys == {k \in Keys : ~k.e}

InitJump ==
    /\ manager = enter_level(start_game([SceneManager EXCEPT !.base_l1 = JumpGrid]), 1)
    /\ dt \in DtSet
    /\ last = [esc |-> "none", e_tile |-> ""]

(* manager.scene.update(dt) of the level ends the frame.                   *)
JumpFrame ==
    /\ manager.scene.kind = "level"
    /\ \E keys \in JumpKeys :
          \E r \in {level_update(manager, keys, dt)} :
              /\ last' = [esc |-> "none", e_tile |-> r.e_tile]
              /\ \E nd \in DtSet :
                    /\ manager' = clock_tick(r.manager, nd)
                    /\ dt' = nd

NextJump == JumpFrame

SpecJump == InitJump /\ [][NextJump]_vars

(* The rectangle r stands on the rectangle t: its bottom edge is t's top   *)
(* edge and the two overlap horizontally.                                  *)
StandsOn(r, t) == r.y + r.h = t.y /\ r.x < t.x + t.w /\ t.x < r.x + r.w

(* In normal play the grounded flag is true only with the body at rest on  *)
(* a solid (a static solid or a hazard rectangle).                         *)
C24_GroundedOnSolid ==
    (InPlay(manager.scene.kind) /\ NormalPlay(manager.scene)
       /\ manager.scene.player.on_ground) =>
        /\ manager.scene.player.vy = 0
        /\ \E t \in SeqToSet(build_solids(manager.scene.map, manager.scene.stalactites,
                                            manager.scene.stalagmites, FALSE)) :
              StandsOn(manager.scene.player.rect, t)

(* A jump impulse seen from outside: the vertical velocity drops to a      *)
(* negative value, or a body that was not rising moves up.                 *)
JumpImpulse ==
    \/ /\ manager'.scene.player.vy < 0
       /\ manager'.scene.player.vy < manager.scene.player.vy
    \/ /\ manager.scene.player.vy >= 0
       /\ manager'.scene.player.rect.y < manager.scene.player.rect.y

(* A frame with a jump impulse starts with the grounded flag true and ends *)
(* with it false.                                                          *)
C24_ImpulseStep ==
    (UpdateOf /\ SameInstance /\ NormalPlay(manager.scene) /\ JumpImpulse) =>
        /\ manager.scene.player.on_ground
        /\ ~manager'.scene.player.on_ground

(* C24: a jump impulse is applied only in a frame that starts with the     *)
(* grounded flag true and clears it; the flag is true only after a         *)
(* downward step has set the body on a solid, so the body lands between    *)
(* any two jump impulses.                                                  *)
C24_JumpOnlyGrounded == []C24_GroundedOnSolid /\ [][C24_ImpulseStep]_vars

(* The body rising right after a jump impulse from the ledge. *)
C24_Witness ==
    /\ InPlay(manager.scene.kind) /\ NormalPlay(manager.scene)
    /\ manager.scene.player.vy = -JUMP_VEL + GRAVITY
    /\ ~manager.scene.player.on_ground
    /\ manager.scene.player.rect.y + manager.scene.player.rect.h
          < manager.scene.map.world_h - TILE
    /\ manager.scene.player.rect.y + manager.scene.player.rect.h = 3 * TILE - 10

-----------------------------------------------------------------------------
(* Grid requests with the grids as objects: the stored base grids and the  *)
(* list a request works on live in a heap of named cells, copy.deepcopy    *)
(* fills a fresh cell and _apply_level2_progressive_lava rewrites the rows *)
(* of the cell it is handed.  Here last also records the base grids as     *)
(* constructed, the first grid returned for level 2 at each counter value  *)
(* and whether every later request at that value returned an equal grid.   *)
GridHeap(m) ==
    [base_hub |-> m.base_hub, base_l1 |-> m.base_l1, base_l2 |-> m.base_l2, copy |-> <<>>]

deepcopy_to(heap, src) == [heap EXCEPT !.copy = heap[src]]

lava_in_place(heap, cell, stage) ==
    [heap EXCEPT ![cell] = apply_level2_progressive_lava(heap[cell], stage)]

BaseCell(level_id) ==
    IF level_id = 1 THEN "base_l1" ELSE IF level_id = 2 THEN "base_l2" ELSE "base_hub"

(* A variant that works on the stored grid itself. *)
get_level_grid_call_alias(m, level_id) ==
    LET h1 == GridHeap(m)
        h2 == IF level_id = 2
              THEN lava_in_place(h1, BaseCell(level_id), m.level2_lava_stage)
              ELSE h1
    IN  [ manager |-> [m EXCEPT !.base_hub = h2.base_hub,
                                !.base_l1 = h2.base_l1,
                                !.base_l2 = h2.base_l2],
          grid |-> h2[BaseCell(level_id)] ]

(* get_level_grid as a call: the session after it and the grid returned.   *)
get_level_grid_call(m, level_id) ==
    LET h1 == deepcopy_to(GridHeap(m), BaseCell(level_id))
        h2 == IF level_id = 2
              THEN lava_in_place(h1, "copy", m.level2_lava_stage)
              ELSE h1
    IN  [ manager |-> [m EXCEPT !.base_hub = h2.base_hub,
                                !.base_l1 = h2.base_l1,
                                !.base_l2 = h2.base_l2],
          grid |-> h2.copy ]

Stages == 0..MaxStage

InitCopy ==
    /\ \E g \in BaseGrids : manager = start_game([SceneManager EXCEPT !.base_l2 = g])
    /\ dt \in DtSet
    /\ last = [esc |-> "none", e_tile |-> "",
               base |-> [base_hub |-> manager.base_hub,
                         base_l1 |-> manager.base_l1,
                         base_l2 |-> manager.base_l2],
               seen |-> [n \in Stages |-> <<>>],
               same |-> TRUE]

(* A scene constructor asks for the grid of a level. *)
CopyRequest ==
    \E level_id \in 0..2 :
        \E r \in {get_level_grid_call(manager, level_id)} :
            LET n == manager.level2_lava_stage
            IN  /\ manager' = r.manager
                /\ last' = IF level_id # 2 THEN last
                           ELSE IF last.seen[n] = <<>>
                           THEN [last EXCEPT !.seen[n] = r.grid]
                           ELSE [last EXCEPT !.same = last.same /\ (r.grid = last.seen[n])]
                /\ UNCHANGED dt

(* on_level2_death: the counter moves on. *)
CopyDeath ==
    /\ manager.level2_lava_stage < MaxStage
    /\ manager' = on_level2_death(manager)
    /\ UNCHANGED <<dt, last>>

(* start_game: the counter returns to 0. *)
CopyRestart ==
    /\ manager.level2_lava_stage > 0
    /\ manager' = start_game(manager)
    /\ UNCHANGED <<dt, last>>

NextCopy == CopyRequest \/ CopyDeath \/ CopyRestart

SpecCopy == InitCopy /\ [][NextCopy]_vars

(* C25: after any sequence of grid requests at any counter values each     *)
(* stored base grid equals its value at construction, and every request    *)
(* for level 2 returned the grid the first request at the same counter     *)
(* value returned.                                                         *)
C25_BasesUntouched ==
    /\ manager.base_hub = last.base.base_hub
    /\ manager.base_l1 = last.base.base_l1
    /\ manager.base_l2 = last.base.base_l2
    /\ last.same

(* Level 2 has been requested at counter 0 and at a later counter, the     *)
(* later grid differs from the base, and the counter is back at 0.         *)
C25_Witness ==
    /\ manager.level2_lava_stage = 0
    /\ last.seen[0] = manager.base_l2
    /\ \E n \in Stages : n > 0 /\ last.seen[n] # <<>> /\ last.seen[n] # manager.base_l2

(* The columns of a grid that hold one of the characters.                  *)
ColumnsOf(grid, chars) ==
    {x \in 0..(GridW(grid) - 1) : \E y \in 1..Len(grid) : grid[y][x + 1] \in chars}

(* C26: the level-2 grid in use differs from the stored base grid only at  *)
(* cells that are empty in the base and lava in the grid, in rows H - 4    *)
(* and H - 5, at columns from the start column to W - 3, and in no column  *)
(* that holds the spawn marker or an exit door; a solid, door, spawn or    *)
(* collectible cell is as in the base.                                     *)
C26_OnlyEmptyToLava ==
    (manager.scene.kind = "level" /\ manager.scene.level_id = 2) =>
        LET g == manager.scene.map.grid
            b == manager.base_l2
            H == Len(b)
            W == GridW(b)
        IN  /\ Len(g) = H
            /\ \A y \in 1..H :
                  /\ Len(g[y]) = Len(b[y])
                  /\ \A x \in 1..Len(b[y]) :
                        g[y][x] # b[y][x] =>
                           /\ b[y][x] = "." /\ g[y][x] = LAVA_CHAR
                           /\ y - 1 \in {H - 4, H - 5}
                           /\ 52 <= x - 1 /\ x - 1 <= W - 3
                           /\ x - 1 \notin ColumnsOf(b, {"P"} \cup ExitChars)

(* Level 2 after a death: the strip has reached column W - 3 and stops     *)
(* there, and a wall inside the strip stands as in the base.               *)
C26_Witness ==
    /\ manager.scene.kind = "level" /\ manager.scene.level_id = 2
    /\ manager.level2_lava_stage >= 1
    /\ LET g == manager.scene.map.grid
           b == manager.base_l2
           W == GridW(b)
       IN  \E y \in 1..Len(b) :
              /\ b[y][W - 2] = "." /\ g[y][W - 2] = LAVA_CHAR
              /\ g[y][W - 1] = "."
              /\ \E x \in 53..(W - 2) : b[y][x] = "#" /\ g[y][x] = "#"

-----------------------------------------------------------------------------
(* Collectible groups as a function of the collectible tiles: the session  *)
(* starts in the hub over a level-1 grid holding collectibles at a set of  *)
(* cells of a lattice, and the level is entered and left.                  *)
GroupCols == 0..3
GroupRows == 0..2

GroupGrid(P) ==
    [y \in 1..4 |->
        [x \in 1..5 |-> IF y = 4 THEN "#"
                        ELSE IF <<x - 1, y - 1>> \in P THEN CONSUMABLE_CHAR ELSE "."]]

InitGroups ==
    /\ \E P \in SUBSET (GroupCols \X GroupRows) :
          manager = start_game([SceneManager EXCEPT !.base_l1 = GroupGrid(P)])
    /\ dt \in DtSet
    /\ last = [esc |-> "none", e_tile |-> ""]

NextGroups == ParseRequest \/ ParseReturn

SpecGroups == InitGroups /\ [][NextGroups]_vars

Adjacent(p, q) ==
    \/ p[1] = q[1] /\ (p[2] = q[2] + 1 \/ q[2] = p[2] + 1)
    \/ p[2] = q[2] /\ (p[1] = q[1] + 1 \/ q[1] = p[1] + 1)

(* The tiles of S joined to a tile of R by a path of 4-neighbours in S.    *)
RECURSIVE Joined(_, _)
Joined(R, S) ==
    LET more == R \cup {q \in S : \E r \in R : Adjacent(q, r)}
    IN  IF more = R THEN R ELSE Joined(more, S)

(* The cells of a grid that hold a collectible, as (x, y) tiles.           *)
CollectibleCells(grid) ==
    {c \in (0..(GridW(grid) - 1)) \X (0..(Len(grid) - 1)) :
        grid[c[2] + 1][c[1] + 1] = CONSUMABLE_CHAR}

(* C27: the groups built for a level with nothing collected partition its  *)
(* collectible tiles into the maximal 4-connected components: every tile   *)
(* is in exactly one group, the tiles of a group are joined by paths of    *)
(* up/down/left/right neighbours inside the group, and no tile of one      *)
(* group is a 4-neighbour of a tile of another.                            *)
C27_Components ==
    (manager.scene.kind = "level" /\ manager.collected_ids = {}) =>
        LET groups == manager.scene.collectibles
            T(i) == SeqToSet(groups[i].tiles)
            P == CollectibleCells(manager.scene.map.grid)
        IN  /\ \A p \in P : Cardinality({i \in DOMAIN groups : p \in T(i)}) = 1
            /\ \A i \in DOMAIN groups :
                  /\ T(i) # {} /\ T(i) \subseteq P
                  /\ Cardinality(T(i)) = Len(groups[i].tiles)
                  /\ \A p \in T(i) : Joined({p}, T(i)) = T(i)
            /\ \A i, j \in DOMAIN groups :
                  i # j => \A p \in T(i), q \in T(j) : ~Adjacent(p, q)

(* A level with a group of three or more tiles that bends, and a tile of   *)
(* another group diagonal to one of its tiles.                             *)
C27_Witness ==
    /\ manager.scene.kind = "level"
    /\ \E i, j \in DOMAIN manager.scene.collectibles :
          LET A == SeqToSet(manager.scene.collectibles[i].tiles)
              B == SeqToSet(manager.scene.collectibles[j].tiles)
          IN  /\ i # j
              /\ Cardinality(A) >= 3
              /\ \E p, q \in A : p[1] # q[1] /\ p[2] # q[2]
              /\ \E p \in A, q \in B :
                    (p[1] - q[1]) \in {-1, 1} /\ (p[2] - q[2]) \in {-1, 1}

(* A Hub or Level scene never has both flags set.                          *)
C28_FlagsExclusive ==
    InPlay(manager.scene.kind) =>
        ~(manager.scene.lava_stun /\ manager.scene.pending_reset)

(* A scene in PENDING_RESET that stays the current scene stays pending,    *)
(* does not enter LAVA_STUN and its timer is not set back.                 *)
C28_PendingStep ==
    (SameInstance /\ manager.scene.pending_reset) =>
        /\ manager'.scene.pending_reset
        /\ ~manager'.scene.lava_stun
        /\ manager'.scene.death_timer <= manager.scene.death_timer

(* C28: at every frame boundary a Hub or Level scene is in exactly one of  *)
(* RUNNING, LAVA_STUN and PENDING_RESET: the two flags are never both      *)
(* true, a pending scene never enters LAVA_STUN, and a pending reset's     *)
(* timer is never restarted.                                               *)
C28_OneState == []C28_FlagsExclusive /\ [][C28_PendingStep]_vars

(* A reset pending out of a stun that has run out, the body still on the   *)
(* lava that started it.                                                   *)
C28_Witness ==
    /\ InPlay(manager.scene.kind)
    /\ manager.scene.pending_reset /\ ~manager.scene.lava_stun
    /\ manager.scene.lava_timer <= 0
    /\ manager.scene.death_timer = 0
    /\ HitsAny(manager.scene.player.rect, manager.scene.map.lava)

(* C29: in every state of the session where the ledger exists, the global  *)
(* collected count is the number of keys in the global collected set.      *)
C29_CountIsSetSize ==
    manager.has_progress =>
        manager.collected_count = Cardinality(manager.collected_ids)

(* Back in the hub with groups of both levels in the ledger.               *)
C29_Witness ==
    /\ manager.scene.kind = "hub"
    /\ manager.collected_count >= 2
    /\ \E u, v \in manager.collected_ids : u[1] = 1 /\ v[1] = 2

(* A level-2 scene in LAVA_STUN or PENDING_RESET.                          *)
Dead2 ==
    /\ manager.scene.kind = "level" /\ manager.scene.level_id = 2
    /\ ~NormalPlay(manager.scene)

(* The time left on the countdown the scene is in.                         *)
Remaining(s) == IF s.lava_stun THEN s.lava_timer ELSE s.death_timer

(* The reset of a level-2 scene, counted: a fresh level-2 instance at the  *)
(* counter raised by one.                                                  *)
CountedReset ==
    /\ last'.esc = "none"
    /\ manager'.level2_lava_stage = manager.level2_lava_stage + 1
    /\ manager'.scene = LevelScene(manager', 2)

(* The scene stays the level-2 scene it is, waiting, at the same counter.  *)
StillDead2 ==
    /\ manager'.scene.kind = "level" /\ manager'.scene.level_id = 2
    /\ ~NormalPlay(manager'.scene)
    /\ manager'.level2_lava_stage = manager.level2_lava_stage

(* C30 as stated: a level-2 scene that has entered LAVA_STUN or            *)
(* PENDING_RESET is left only by its reset, which raises the counter by    *)
(* one and builds a fresh level-2 instance, whatever events arrive.        *)
C30_EveryDeathCounted == [][Dead2 => (StillDead2 \/ CountedReset)]_vars

(* What a step does to a level-2 scene in LAVA_STUN or PENDING_RESET: an   *)
(* event other than ESC changes nothing; an update takes dt off the        *)
(* countdown (a stun that runs out becomes a reset pending with no time    *)
(* left) or, with no time left after dt, resets; an ESC delivered to the   *)
(* scene opens the Hub at the same counter; a second ESC in the window     *)
(* opens the Menu at counter 0.                                            *)
C30_DeadStep ==
    Dead2 =>
        \/ /\ last'.esc = "none"
           /\ manager' = manager
        \/ /\ last'.esc = "none"
           /\ StillDead2
           /\ Remaining(manager.scene) - dt > 0 \/ manager.scene.lava_stun
           /\ Remaining(manager'.scene) < Remaining(manager.scene)
           /\ Remaining(manager'.scene) \in {Remaining(manager.scene) - dt, 0}
        \/ /\ CountedReset
           /\ ~manager.scene.lava_stun
           /\ Remaining(manager.scene) - dt <= 0
        \/ /\ last'.esc = "delivered"
           /\ manager'.scene.kind = "hub"
           /\ manager'.level2_lava_stage = manager.level2_lava_stage
        \/ /\ last'.esc = "consumed"
           /\ manager'.scene.kind = "menu"
           /\ manager'.level2_lava_stage = 0

(* C30 amended: unless an ESC key-down arrives during the countdown, a     *)
(* level-2 scene that has entered LAVA_STUN or PENDING_RESET is replaced,  *)
(* once updates have taken the countdown's time off, by a fresh level-2    *)
(* instance at the counter raised by exactly one; an ESC during the        *)
(* countdown replaces the scene with the Hub (a second ESC in the window:  *)
(* with the Menu, the counter back at 0) and that death is not counted.    *)
C30_DeathCountedUnlessEsc == [][C30_DeadStep]_vars

(* Level 2 built anew after a counted death: the fresh instance at a       *)
(* raised counter, nothing collected.                                      *)
C30_Witness ==
    /\ manager.level2_lava_stage >= 1
    /\ manager.scene.kind = "level"
    /\ manager.scene = LevelScene(manager, 2)
    /\ manager.collected_count = 0
    /\ last.esc = "none"

(* C31: at the end of every normal-play frame that did not end in lethal   *)
(* contact the body rectangle overlaps none of the solids used for that    *)
(* frame: the static solids and, unless the frame started in a door's safe *)
(* zone, the stalactite rectangles as updated in the frame and the         *)
(* stalagmite rectangles.                                                  *)
C31_NeverInsideSolid ==
    [][(UpdateOf /\ SameInstance /\ NormalPlay(manager.scene)
          /\ ~HitsAny(manager.scene.player.rect, manager.scene.map.lava)
          /\ NormalPlay(manager'.scene)) =>
          ~HitsAny(manager'.scene.player.rect,
                   build_solids(manager.scene.map, manager'.scene.stalactites,
                                manager.scene.stalagmites, Safe(manager.scene)))]_vars

====
